---- MODULE Spec2Model ----
(***************************************************************************)
(* Model of the Firefly transcoding driver: main.py (pipeline driver),     *)
(* job_composer.py (compose), job_validator.py, encoder.py (CRF search),   *)
(* json_serializer.py (journal) and locking/ (application and job locks).  *)
(*                                                                         *)
(* Spec is the driver processes; SpecFair is Spec with the scheduling of   *)
(* the encoder and VMAF processes; SpecJournal is a set of threads calling *)
(* serialize_to_json and load_from_json on one journal file.               *)
(*                                                                         *)
(* VMAF values are scaled by 100 (96.0 is 9600) and the efficiency         *)
(* threshold likewise (0.28 is 28), so that all arithmetic is on integers. *)
(* Python's None for last_crf / last_vmaf is the value None == -1.         *)
(***************************************************************************)
EXTENDS Integers, Sequences, FiniteSets, TLC

\* ---------------------------------------------------------------- bounds
NumDrivers == 2
MaxRuns == 2
CrfMax == 15
InitialCrf == 14

\* ------------------------------------------------- configuration values
CrfMin == 12
VmafMin == 9600
VmafMax == 9700
EfficiencyThreshold == 28
None == -1

Drivers == 1..NumDrivers
\* The output directories a driver process may be configured with.
Dirs == {"o1", "o2"}
Sources == {"a"}
\* VMAF scores an iteration may measure: far below, just below, the two ends
\* of the band, above and far above.
VmafValues == {9000, 9590, 9600, 9700, 9800, 9900}

\* Probed attributes of the source files (bitrate in kb/s, height in px).
SourceAttributes ==
    [a |-> [bitrate |-> 5000, height |-> 1080],
     b |-> [bitrate |-> 999, height |-> 719],
     c |-> [bitrate |-> 1000, height |-> 720],
     d |-> [bitrate |-> 999, height |-> 2160],
     e |-> [bitrate |-> 1000, height |-> 2159]]

\* The longest list handed to _prioritize_jobs.
MaxJobs == 3

\* ------------------------------------------------------------ stage names
PREPARED == "PREPARED"
METADATA_EXTRACTED == "METADATA_EXTRACTED"
SEARCHING_CRF == "SEARCHING_CRF"
CRF_FOUND == "CRF_FOUND"
COMPLETED == "COMPLETED"
FAILED == "FAILED"
STOPPED_VMAF_DELTA == "STOPPED_VMAF_DELTA"
UNREACHABLE_VMAF == "UNREACHABLE_VMAF"
SKIPPED_IS_HDR_VIDEO == "SKIPPED_IS_HDR_VIDEO"

ErrorStageNames == {FAILED, STOPPED_VMAF_DELTA, UNREACHABLE_VMAF, SKIPPED_IS_HDR_VIDEO}

\* EncodingStage(...) constructor: the fields not given default to None.
EncodingStage(num, name, lo, hi, lastVmaf, lastCrf) ==
    [stage_number_from_1 |-> num, stage_name |-> name,
     crf_range_min |-> lo, crf_range_max |-> hi,
     last_vmaf |-> lastVmaf, last_crf |-> lastCrf]

\* ------------------------------------------------------------ file system
\* Journal files are named by <<output_dir, directory, source stem>>:
\*   <<o, "jobs", s>> is o/firefly/data/jobs/<s>_encoderdata.json
\*   <<o, "out",  s>> is o/<s>_encoderdata.json.json
JobsDirPath(o, s) == <<o, "jobs", s>>
NewJsonPath(o, s) == <<o, "out", s>>
JournalPaths == {JobsDirPath(o, s) : o \in Dirs, s \in Sources}
                \cup {NewJsonPath(o, s) : o \in Dirs, s \in Sources}

VARIABLES
    pc,            \* pc[d]: position of driver d in main()
    jobs,          \* jobs[d]: the in-memory job list of driver d
    idx,           \* idx[d]: index of the job the current loop of driver d is at
    crfToTest,     \* crfToTest[d]: crf_to_test of the running encode_job pass
    wasProcessed,  \* wasProcessed[d]: was_job_already_processed of _execute_jobs
    appLock,       \* appLock[o]: holder of o/.firefly.lock.lock (0: free)
    jobLock,       \* jobLock[<<o, s>>]: holder of o/.firefly_job_<s>.lock (0: free)
    journal,       \* journal[p]: <<>> (no file) or <<JobData>> at journal path p
    outFile,       \* outFile[<<o, s, crf>>]: content of the iteration output that exists,
                   \*   "raw" as encoded or "emb" with the metadata embedded
    outCopy,       \* <<o, s>>: the original of source s was copied to output_dir o
    srcKind,       \* srcKind[s]: "sdr" or "hdr", what the probe finds in source s
    outDir,        \* outDir[d]: the output_dir of the configuration of driver d
    runs,          \* number of driver runs started so far
    persistedCrfs, \* history: persistedCrfs[<<o, s>>], CRFs ever recorded in a
                   \*   journal of source s under output_dir o
    client,        \* client[c]: position, argument and result of the call of
                   \*   serialize_to_json or load_from_json that thread c is in
    lockFiles,     \* lockFiles[f]: the thread holding lock file f (0: free)
    disk,          \* disk[p]: content of the existing file p, as the JobData it is
                   \*   the dump of and the number of chunks of the dump written
    passed,        \* history: the JobData passed to serialize_to_json so far
    composer,      \* a call of compose_jobs on given directories
    migration,     \* a call of MigrationManager.apply on a parsed journal
    prioritizer,   \* a call of _prioritize_jobs and the _execute_jobs after it
    embedding,     \* a call of _write_embedded_metadata on an output file
    search         \* a call of encode_job, followed through the search loop alone

\* The variables of the driver processes, and those of the clients of
\* json_serializer.py on one journal file.
mainVars == <<pc, jobs, idx, crfToTest, wasProcessed, appLock, jobLock, journal,
              outFile, outCopy, srcKind, outDir, runs, persistedCrfs>>
ioVars == <<client, lockFiles, disk, passed>>
\* The variables of the calls that are followed on inputs of their own.
fnVars == <<composer, migration, prioritizer, embedding, search>>
vars == <<pc, jobs, idx, crfToTest, wasProcessed, appLock, jobLock, journal,
          outFile, outCopy, srcKind, outDir, runs, persistedCrfs,
          client, lockFiles, disk, passed,
          composer, migration, prioritizer, embedding, search>>

Crfs == CrfMin..CrfMax

\* ------------------------------------------------------- CRF search engine
RECURSIVE SeqSum(_)
SeqSum(s) == IF s = <<>> THEN 0 ELSE Head(s) + SeqSum(Tail(s))

CrfsOf(iterations) == [i \in 1..Len(iterations) |-> iterations[i].crf]
VmafsOf(iterations) == [i \in 1..Len(iterations) |-> iterations[i].vmaf]

\* round(float(p / q)) for q > 0: nearest integer, ties to the even one.
RoundHalfEven(p, q) ==
    LET f == p \div q
        r == p - f * q
    IN  IF 2 * r < q THEN f
        ELSE IF 2 * r > q THEN f + 1
        ELSE IF f % 2 = 0 THEN f ELSE f + 1

Min2(a, b) == IF a < b THEN a ELSE b
Max2(a, b) == IF a > b THEN a ELSE b

\* max(stage.crf_range_min, min(stage.crf_range_max, res))
Clamp(lo, hi, x) == Max2(lo, Min2(hi, x))

\* The midpoint rounded up.
MidpointCeil(stage) == (stage.crf_range_min + stage.crf_range_max + 1) \div 2

Midpoint(stage) == (stage.crf_range_min + stage.crf_range_max) \div 2

\* np.polyfit(x, y, 1) and (target_vmaf - b) / k, in exact arithmetic:
\*   k = N / D with N = n*Sxy - Sx*Sy, D = n*Sxx - Sx*Sx, b = (Sy - k*Sx) / n,
\*   predicted = ((n*T2 - 2*Sy)*D + 2*Sx*N) / (2*n*N), T2 = vmaf_min + vmaf_max.
\* With a zero slope (or a singular fit) the floating-point quotient is
\* inf/nan, on which round() raises and the code falls back to the midpoint,
\* or it is a huge finite number, which the clamp sends to an end of the window.
RegressionCrfs(stage, iterations) ==
    LET n == Len(iterations)
        x == CrfsOf(iterations)
        y == VmafsOf(iterations)
        Sx == SeqSum(x)
        Sy == SeqSum(y)
        Sxx == SeqSum([i \in 1..n |-> x[i] * x[i]])
        Sxy == SeqSum([i \in 1..n |-> x[i] * y[i]])
        D == n * Sxx - Sx * Sx
        N == n * Sxy - Sx * Sy
        T2 == VmafMin + VmafMax
        P == (n * T2 - 2 * Sy) * D + 2 * Sx * N
        Q == 2 * n * N
        res == IF Q > 0 THEN RoundHalfEven(P, Q) ELSE RoundHalfEven(-P, -Q)
    IN  IF D = 0 \/ N = 0
        THEN {Midpoint(stage),
              Clamp(stage.crf_range_min, stage.crf_range_max, stage.crf_range_min),
              Clamp(stage.crf_range_min, stage.crf_range_max, stage.crf_range_max)}
        ELSE {Clamp(stage.crf_range_min, stage.crf_range_max, res)}

\* _predict_next_crf: the set of values the call can return.
PredictNextCrf(stage, iterations) ==
    IF stage.last_crf = None THEN {InitialCrf}
    ELSE IF Len(iterations) >= 2 THEN RegressionCrfs(stage, iterations)
    ELSE {Midpoint(stage)}

IsCrfPredictionValid(stage, predicted_crf) ==
    ~(predicted_crf < stage.crf_range_min \/ predicted_crf > stage.crf_range_max)

Abs(x) == IF x < 0 THEN -x ELSE x

IsEncodingEfficient(stage, current_vmaf, crf_to_test) ==
    IF stage.last_vmaf # None /\ stage.last_crf # None
    THEN LET vmaf_delta == Abs(current_vmaf - stage.last_vmaf)
             crf_delta == Abs(crf_to_test - stage.last_crf)
         IN  ~(crf_delta > 0 /\ vmaf_delta < EfficiencyThreshold * crf_delta)
    ELSE TRUE

\* The band test with the upper end left open.
IsInBandNoUpperEnd(vmaf) == VmafMin <= vmaf

\* The band test with the lower end left out.
IsInBandStrict(vmaf) == VmafMin < vmaf /\ vmaf <= VmafMax

IsInBand(vmaf) == VmafMin <= vmaf /\ vmaf <= VmafMax

\* The iteration recorded last, whatever its distance to vmaf_min.
BestIterationLast(iterations) == iterations[Len(iterations)]

\* min(iterations, key=|vmaf - vmaf_min|): the first iteration of least distance.
BestIteration(iterations) ==
    LET dist(i) == Abs(iterations[i].vmaf - VmafMin)
        best == CHOOSE i \in 1..Len(iterations) :
                    /\ \A j \in 1..Len(iterations) : dist(i) <= dist(j)
                    /\ \A j \in 1..(i - 1) : dist(j) > dist(i)
    IN  iterations[best]

CrfFoundStage(crf_to_test, current_vmaf) ==
    EncodingStage(4, CRF_FOUND, crf_to_test, crf_to_test, current_vmaf, crf_to_test)

StoppedStage(stage, iterations) ==
    EncodingStage(-2, STOPPED_VMAF_DELTA, stage.crf_range_min, stage.crf_range_max,
                  BestIteration(iterations).vmaf, BestIteration(iterations).crf)

\* UNREACHABLE_VMAF built without the last result.
UnreachableStageCleared(stage) ==
    EncodingStage(-3, UNREACHABLE_VMAF, stage.crf_range_min, stage.crf_range_max,
                  None, None)

\* UNREACHABLE_VMAF built with the number of SEARCHING_CRF.
UnreachableStageMispaired(stage) ==
    EncodingStage(3, UNREACHABLE_VMAF, stage.crf_range_min, stage.crf_range_max,
                  stage.last_vmaf, stage.last_crf)

UnreachableStage(stage) ==
    EncodingStage(-3, UNREACHABLE_VMAF, stage.crf_range_min, stage.crf_range_max,
                  stage.last_vmaf, stage.last_crf)

\* A narrowing that leaves the tested CRF in the window.
NarrowedStageInclusive(stage, crf_to_test, current_vmaf) ==
    LET lo == IF current_vmaf > VmafMax THEN crf_to_test ELSE stage.crf_range_min
        hi == IF current_vmaf > VmafMax THEN stage.crf_range_max ELSE crf_to_test
    IN  EncodingStage(3, SEARCHING_CRF, lo, hi, current_vmaf, crf_to_test)

\* A narrowing that keeps the previous result as last_crf and last_vmaf.
NarrowedStageStale(stage, crf_to_test, current_vmaf) ==
    LET lo == IF current_vmaf > VmafMax THEN crf_to_test + 1 ELSE stage.crf_range_min
        hi == IF current_vmaf > VmafMax THEN stage.crf_range_max ELSE crf_to_test - 1
    IN  EncodingStage(3, SEARCHING_CRF, lo, hi, stage.last_vmaf, stage.last_crf)

\* A narrowing that also drops the CRF next to the tested one.
NarrowedStageSkipping(stage, crf_to_test, current_vmaf) ==
    LET lo == IF current_vmaf > VmafMax THEN crf_to_test + 2 ELSE stage.crf_range_min
        hi == IF current_vmaf > VmafMax THEN stage.crf_range_max ELSE crf_to_test - 2
    IN  EncodingStage(3, SEARCHING_CRF, lo, hi, current_vmaf, crf_to_test)

\* Lines 120-136 of encode_job: the window is narrowed in place, then a new
\* SEARCHING_CRF stage is built from it.
NarrowedStage(stage, crf_to_test, current_vmaf) ==
    LET lo == IF current_vmaf > VmafMax THEN crf_to_test + 1 ELSE stage.crf_range_min
        hi == IF current_vmaf > VmafMax THEN stage.crf_range_max ELSE crf_to_test - 1
    IN  EncodingStage(3, SEARCHING_CRF, lo, hi, current_vmaf, crf_to_test)

\* The stage encode_job assigns after an iteration at crf_to_test measured
\* current_vmaf; iterations already holds the new iteration.
DecidedStage(stage, iterations, crf_to_test, current_vmaf) ==
    IF IsInBand(current_vmaf) THEN CrfFoundStage(crf_to_test, current_vmaf)
    ELSE IF ~IsEncodingEfficient(stage, current_vmaf, crf_to_test)
         THEN StoppedStage(stage, iterations)
    ELSE NarrowedStage(stage, crf_to_test, current_vmaf)

\* ------------------------------------------------------------ job records
\* JobData as serialized: the source (file name and hash), the stage, the
\* iterations, and the probed source attributes ("none" until extracted).
JobDataOf(job) ==
    [src |-> job.src, stage |-> job.stage, iterations |-> job.iterations,
     attrs |-> job.attrs]

\* EncoderJob: JobData plus the journal path and the priority. ahead counts the
\* stage transitions made in memory since the journal was last written;
\* timeout tells which lock's Timeout encode_job caught for the job in this
\* run: "none", "job" (the job lock) or "nested" (a lock taken inside);
\* retried tells that an encoder or VMAF process of the job was offloaded for
\* memory pressure since the journal was last written.
EncoderJob(path, data) ==
    [src |-> data.src, path |-> path, stage |-> data.stage,
     iterations |-> data.iterations, attrs |-> data.attrs,
     priority |-> 0, ahead |-> 0, timeout |-> "none", retried |-> FALSE]

\* A first window that reaches one CRF beyond crf_max.
InitializeEncoderJobWide(s, json_file_path) ==
    EncoderJob(json_file_path,
               [src |-> s,
                stage |-> EncodingStage(1, PREPARED, CrfMin, CrfMax + 1, None, None),
                iterations |-> <<>>, attrs |-> "none"])

\* _initialize_encoder_job
InitializeEncoderJob(s, json_file_path) ==
    EncoderJob(json_file_path,
               [src |-> s,
                stage |-> EncodingStage(1, PREPARED, CrfMin, CrfMax, None, None),
                iterations |-> <<>>, attrs |-> "none"])

\* hashing_service.calculate_sha256_hash of a file of the given content: files
\* of different content have different hashes.
CalculateSha256Hash(content) == <<"sha256", content>>

\* The Iteration built at lines 260-283 of _encode_iteration: the hash is
\* computed at line 265, on the output as the encoder wrote it.
Iteration(crf, vmaf) ==
    [crf |-> crf, vmaf |-> vmaf, sha256_hash |-> CalculateSha256Hash("raw")]

\* The output_dir a job's journal lies under.
JobDir(job) == job.path[1]

OutputExists(o, s, crf) == <<o, s, crf>> \in DOMAIN outFile

\* The journal files after serialize_to_json(job.job_data, job.path)
Serialized(jn, job) == [jn EXCEPT ![job.path] = <<JobDataOf(job)>>]

Recorded(pcrfs, job) ==
    [pcrfs EXCEPT ![<<JobDir(job), job.src>>] =
                     @ \cup {job.iterations[i].crf : i \in 1..Len(job.iterations)}]

WithStage(job, stage) == [job EXCEPT !.stage = stage, !.ahead = @ + 1]

\* Assignments to stage_number_from_1 and stage_name of the current stage.
Renamed(job, num, name) ==
    WithStage(job, [job.stage EXCEPT !.stage_number_from_1 = num, !.stage_name = name])

Saved(job) == [job EXCEPT !.ahead = 0, !.retried = FALSE]

\* -------------------------------------------------------------- compose
\* All orders in which a directory listing can yield the members of S.
RECURSIVE Listings(_)
Listings(S) ==
    IF S = {} THEN {<<>>}
    ELSE UNION {{<<x>> \o rest : rest \in Listings(S \ {x})} : x \in S}

\* _validate_job_data: the source exists in input_dir and its hash is the stored one.
ValidateJobData(data) == data.src \in Sources

\* _load_existing_jobs keeps the files of the jobs directory that parse and validate.
LoadableSources(o) == {s \in Sources : journal[JobsDirPath(o, s)] # <<>>
                                       /\ ValidateJobData(journal[JobsDirPath(o, s)][1])}

\* job_validator.validate
Validate(job) ==
    /\ job.src \in Sources
    /\ journal[job.path] # <<>>
    /\ \/ job.stage.stage_name \in {PREPARED, METADATA_EXTRACTED, SEARCHING_CRF}
       \/ job.stage.stage_name \in {STOPPED_VMAF_DELTA, UNREACHABLE_VMAF}
       \/ LET matching == {i \in 1..Len(job.iterations) :
                              /\ job.stage.crf_range_min = job.stage.crf_range_max
                              /\ job.iterations[i].vmaf = job.stage.last_vmaf}
          IN  /\ matching # {}
              /\ LET best == CHOOSE i \in matching : \A j \in matching : j <= i
                 IN  OutputExists(JobDir(job), job.src, job.iterations[best].crf)

RECURSIVE SelectSeq2(_, _)
SelectSeq2(s, keep) ==
    IF s = <<>> THEN <<>>
    ELSE (IF Head(s).src \in keep THEN <<Head(s)>> ELSE <<>>) \o SelectSeq2(Tail(s), keep)

\* ------------------------------------------------------------ prioritizer
\* Multipliers are scaled by 10 and the score by 100.
\* A low-bitrate rule that also takes 1000 kb/s for low.
LowBitrateMultiplierInclusive(job) ==
    IF job.attrs = "none" THEN 10
    ELSE IF SourceAttributes[job.src].bitrate <= 1000 THEN 1 ELSE 10

LowBitrateMultiplier(job) ==
    IF job.attrs = "none" THEN 10
    ELSE IF SourceAttributes[job.src].bitrate < 1000 THEN 1 ELSE 10

ResolutionMultiplier(job) ==
    IF job.attrs = "none" THEN 10
    ELSE LET height == SourceAttributes[job.src].height
         IN  IF height >= 2160 THEN 20
             ELSE IF height >= 1080 THEN 15
             ELSE IF height >= 720 THEN 10
             ELSE 5

Prioritized(job) ==
    [job EXCEPT !.priority = LowBitrateMultiplier(job) * ResolutionMultiplier(job)]

\* list.sort(key=priority, reverse=True): stable, descending.
RECURSIVE InsertDesc(_, _)
InsertDesc(x, s) ==
    IF s = <<>> THEN <<x>>
    ELSE IF Head(s).priority >= x.priority THEN <<Head(s)>> \o InsertDesc(x, Tail(s))
    ELSE <<x>> \o s

RECURSIVE SortDesc(_)
SortDesc(s) ==
    IF s = <<>> THEN <<>>
    ELSE InsertDesc(s[Len(s)], SortDesc(SubSeq(s, 1, Len(s) - 1)))

\* ---------------------------------------------------------------- locks
\* An acquire that never waits for the holder.
CanAcquireAlways(holder) == TRUE

\* FileLock.acquire() succeeds when no other holder has the lock file.
CanAcquire(holder) == holder = 0

\* A release that leaves the lock file locked.
ReleasedNever(holder, d) == holder

\* ManagedFileLock.release(), also through __exit__: the lock of d is dropped.
Released(holder, d) == IF holder = d THEN 0 ELSE holder

\* ----------------------------------------------- json_serializer clients
\* Threads (of one or of several processes) calling serialize_to_json and
\* load_from_json on one journal file.
NumClients == 3
Clients == 1..NumClients

\* Chunks in which the buffered write of a dump reaches the file.
DumpChunks == 2

EXCLUSIVE == "exclusive"
SHARED == "shared"

\* The journal file the clients work on.
MetadataPath == NewJsonPath("o1", "a")

\* A dump written in place of the journal.
WithSuffixTmpInPlace(p) == p

\* p.with_suffix('.tmp')
WithSuffixTmp(p) == <<p[1], "tmp", p[3]>>

\* ManagedFileLock._generate_lock_path: the lock file of target p for a lock
\* of the given mode asked by thread c.
GenerateLockPath(p, mode, c) ==
    IF mode = EXCLUSIVE THEN <<p, "lock", 0>> ELSE <<p, "read", c>>

LockPaths ==
    {GenerateLockPath(MetadataPath, mode, c) : mode \in {EXCLUSIVE, SHARED}, c \in Clients}

\* The JobData values the clients pass to serialize_to_json.
Payloads ==
    {JobDataOf(InitializeEncoderJob("a", MetadataPath)),
     JobDataOf(WithStage(InitializeEncoderJob("a", MetadataPath),
                         EncodingStage(2, METADATA_EXTRACTED, CrfMin, CrfMax, None, None)))}

\* job_data.model_dump_json(): the text, in DumpChunks chunks.
ModelDumpJson(data) == [of |-> data, chunks |-> DumpChunks]

\* The first n chunks of a text.
Prefix(text, n) == [text EXCEPT !.chunks = n]

\* JobData.model_validate_json(): the JobData of a complete dump; anything
\* shorter does not parse and load_from_json raises ValueError.
ModelValidateJson(text) ==
    IF text.chunks = DumpChunks
    THEN [kind |-> "JobData", value |-> <<text.of>>]
    ELSE [kind |-> "ValueError", value |-> <<>>]

NoResult == [kind |-> "none", value |-> <<>>]
Raised(exception) == [kind |-> exception, value |-> <<>>]

IdleClient == [at |-> "idle", arg |-> <<>>, result |-> NoResult]

WithFile(files, p, content) ==
    [k \in DOMAIN files \cup {p} |-> IF k = p THEN content ELSE files[k]]

WithoutFile(files, p) == [k \in DOMAIN files \ {p} |-> files[k]]

\* ------------------------------------------------------------------ Init
\* No call is being followed.
NoCall == [at |-> "off"]

\* The driver processes and the serializer threads before they start.
InitDrivers ==
    /\ pc = [d \in Drivers |-> "idle"]
    /\ jobs = [d \in Drivers |-> <<>>]
    /\ idx = [d \in Drivers |-> 0]
    /\ crfToTest = [d \in Drivers |-> None]
    /\ wasProcessed = [d \in Drivers |-> FALSE]
    /\ appLock = [o \in Dirs |-> 0]
    /\ jobLock = [k \in Dirs \X Sources |-> 0]
    /\ journal = [p \in JournalPaths |-> <<>>]
    /\ outFile = <<>>
    /\ outCopy = {}
    /\ srcKind \in [Sources -> {"sdr", "hdr"}]
    /\ outDir \in {f \in [Drivers -> Dirs] : f[1] = "o1"}
    /\ runs = 0
    /\ persistedCrfs = [k \in Dirs \X Sources |-> {}]
    /\ client = [c \in Clients |-> IdleClient]
    /\ lockFiles = [f \in LockPaths |-> 0]
    /\ disk = <<>>
    /\ passed = {}

Init ==
    /\ InitDrivers
    /\ composer = NoCall
    /\ migration = NoCall
    /\ prioritizer = NoCall
    /\ embedding = NoCall
    /\ search = NoCall

CurrentJob(d) == jobs[d][idx[d]]
HasCurrentJob(d) == idx[d] >= 1 /\ idx[d] <= Len(jobs[d])

SetCurrentJob(d, job) == jobs' = [jobs EXCEPT ![d][idx[d]] = job]

Goto(d, label) == pc' = [pc EXCEPT ![d] = label]

WithoutOutput(files, o, s, crf) ==
    [k \in DOMAIN files \ {<<o, s, crf>>} |-> files[k]]

WithOutput(files, o, s, crf, content) ==
    [k \in DOMAIN files \cup {<<o, s, crf>>} |->
        IF k = <<o, s, crf>> THEN content ELSE files[k]]

\* Positions of a process that is not running: never started, or ended by
\* the end of main(), by a caught KeyboardInterrupt, by the caught Timeout of
\* the application lock, or by an exception nothing catches.
Terminated == {"idle", "exit_clean", "exit_interrupt", "exit_lock_timeout", "crashed"}

\* The exit status of the process: main() returning gives 0, an uncaught
\* exception gives 1.
ExitCode(label) == IF label = "crashed" THEN 1 ELSE 0

\* The process leaves main(): every with-block releases its lock, the memory
\* of the run is gone.
LeaveMain(d, label) ==
    /\ Goto(d, label)
    /\ appLock' = [appLock EXCEPT ![outDir[d]] = Released(@, d)]
    /\ jobLock' = [k \in Dirs \X Sources |-> Released(jobLock[k], d)]
    /\ jobs' = [jobs EXCEPT ![d] = <<>>]
    /\ idx' = [idx EXCEPT ![d] = 0]
    /\ crfToTest' = [crfToTest EXCEPT ![d] = None]
    /\ wasProcessed' = [wasProcessed EXCEPT ![d] = FALSE]

\* ------------------------------------------------------------- main()
Start(d) ==
    /\ pc[d] \in Terminated
    /\ runs < MaxRuns
    /\ runs' = runs + 1
    /\ Goto(d, "acquire")
    /\ UNCHANGED <<jobs, idx, crfToTest, wasProcessed, appLock, jobLock, journal,
                   outFile, outCopy, srcKind, outDir, ioVars, fnVars, persistedCrfs>>

AcquireApplicationLock(d) ==
    /\ pc[d] = "acquire"
    /\ CanAcquire(appLock[outDir[d]])
    /\ appLock' = [appLock EXCEPT ![outDir[d]] = d]
    /\ Goto(d, "load")
    /\ UNCHANGED <<jobs, idx, crfToTest, wasProcessed, jobLock, journal,
                   outFile, outCopy, srcKind, outDir, ioVars, fnVars, runs, persistedCrfs>>

\* The lock stayed held for the whole timeout: main() logs and returns.
ApplicationLockTimeout(d) ==
    /\ pc[d] = "acquire"
    /\ ~CanAcquire(appLock[outDir[d]])
    /\ Goto(d, "exit_lock_timeout")
    /\ UNCHANGED <<jobs, idx, crfToTest, wasProcessed, appLock, jobLock, journal,
                   outFile, outCopy, srcKind, outDir, ioVars, fnVars, runs, persistedCrfs>>

\* _load_existing_jobs: every journal of the jobs directory is loaded, or
\* deleted when it does not validate.
LoadExistingJobs(d) ==
    /\ pc[d] = "load"
    /\ \E order \in Listings(LoadableSources(outDir[d])) :
          jobs' = [jobs EXCEPT ![d] =
                     [i \in 1..Len(order) |->
                        EncoderJob(JobsDirPath(outDir[d], order[i]),
                                   journal[JobsDirPath(outDir[d], order[i])][1])]]
    /\ journal' = [p \in JournalPaths |->
                     IF /\ p[1] = outDir[d] /\ p[2] = "jobs"
                        /\ p[3] \notin LoadableSources(outDir[d])
                     THEN <<>> ELSE journal[p]]
    /\ Goto(d, "create")
    /\ UNCHANGED <<idx, crfToTest, wasProcessed, appLock, jobLock,
                   outFile, outCopy, srcKind, outDir, ioVars, fnVars, runs, persistedCrfs>>

\* Hashes known from the loaded journals: their sources (the hashes of the
\* iteration outputs are never those of a file of input_dir).
KnownSources(existing_jobs) == {existing_jobs[i].src : i \in 1..Len(existing_jobs)}

\* _create_jobs_from_source_files
CreateJobsFromSourceFiles(d) ==
    /\ pc[d] = "create"
    /\ \E order \in Listings(Sources \ KnownSources(jobs[d])) :
          LET new_jobs == [i \in 1..Len(order) |->
                             InitializeEncoderJob(order[i], NewJsonPath(outDir[d], order[i]))]
          IN  /\ jobs' = [jobs EXCEPT ![d] = @ \o new_jobs]
              /\ journal' = [p \in JournalPaths |->
                               IF \E i \in 1..Len(order) : p = new_jobs[i].path
                               THEN <<JobDataOf(InitializeEncoderJob(p[3], p))>>
                               ELSE journal[p]]
    /\ Goto(d, "validate")
    /\ UNCHANGED <<idx, crfToTest, wasProcessed, appLock, jobLock,
                   outFile, outCopy, srcKind, outDir, ioVars, fnVars, runs, persistedCrfs>>

\* _validate_jobs
ValidateJobs(d) ==
    /\ pc[d] = "validate"
    /\ jobs' = [jobs EXCEPT ![d] =
                  SelectSeq2(@, {jobs[d][i].src : i \in {j \in 1..Len(jobs[d]) : Validate(jobs[d][j])}})]
    /\ idx' = [idx EXCEPT ![d] = 1]
    /\ Goto(d, "extract")
    /\ UNCHANGED <<crfToTest, wasProcessed, appLock, jobLock, journal,
                   outFile, outCopy, srcKind, outDir, ioVars, fnVars, runs, persistedCrfs>>

\* ------------------------------------------------------ _extract_metadata
\* The probes succeed: lines 91-97 assign the attributes and the stage.
ExtractMetadata(d) ==
    /\ pc[d] = "extract"
    /\ HasCurrentJob(d)
    /\ CurrentJob(d).stage.stage_name = PREPARED
    /\ SetCurrentJob(d, Renamed([CurrentJob(d) EXCEPT !.attrs = srcKind[CurrentJob(d).src]],
                                2, METADATA_EXTRACTED))
    /\ Goto(d, "extract_save")
    /\ UNCHANGED <<idx, crfToTest, wasProcessed, appLock, jobLock, journal,
                   outFile, outCopy, srcKind, outDir, ioVars, fnVars, runs, persistedCrfs>>

\* A probe raises (ffprobe fails, or the source's file-operation lock times
\* out): lines 99-102.
ExtractMetadataFails(d) ==
    /\ pc[d] = "extract"
    /\ HasCurrentJob(d)
    /\ CurrentJob(d).stage.stage_name = PREPARED
    /\ SetCurrentJob(d, Renamed(CurrentJob(d), -1, FAILED))
    /\ Goto(d, "extract_fail_save")
    /\ UNCHANGED <<idx, crfToTest, wasProcessed, appLock, jobLock, journal,
                   outFile, outCopy, srcKind, outDir, ioVars, fnVars, runs, persistedCrfs>>

\* Line 98: serialize_to_json succeeds.
ExtractSave(d) ==
    /\ pc[d] = "extract_save"
    /\ journal' = Serialized(journal, CurrentJob(d))
    /\ persistedCrfs' = Recorded(persistedCrfs, CurrentJob(d))
    /\ SetCurrentJob(d, Saved(CurrentJob(d)))
    /\ idx' = [idx EXCEPT ![d] = @ + 1]
    /\ Goto(d, "extract")
    /\ UNCHANGED <<crfToTest, wasProcessed, appLock, jobLock,
                   outFile, outCopy, srcKind, outDir, ioVars, fnVars, runs>>

\* Line 98: serialize_to_json raises; the except clause of line 99 catches it.
ExtractSaveFails(d) ==
    /\ pc[d] = "extract_save"
    /\ SetCurrentJob(d, Renamed(CurrentJob(d), -1, FAILED))
    /\ Goto(d, "extract_fail_save")
    /\ UNCHANGED <<idx, crfToTest, wasProcessed, appLock, jobLock, journal,
                   outFile, outCopy, srcKind, outDir, ioVars, fnVars, runs, persistedCrfs>>

\* Lines 103-104: the FAILED stage is written.
ExtractFailSave(d) ==
    /\ pc[d] = "extract_fail_save"
    /\ journal' = Serialized(journal, CurrentJob(d))
    /\ persistedCrfs' = Recorded(persistedCrfs, CurrentJob(d))
    /\ SetCurrentJob(d, Saved(CurrentJob(d)))
    /\ idx' = [idx EXCEPT ![d] = @ + 1]
    /\ Goto(d, "extract")
    /\ UNCHANGED <<crfToTest, wasProcessed, appLock, jobLock,
                   outFile, outCopy, srcKind, outDir, ioVars, fnVars, runs>>

\* Lines 105-106: writing the FAILED stage raises and the error is swallowed.
ExtractFailSaveSwallowed(d) ==
    /\ pc[d] = "extract_fail_save"
    /\ idx' = [idx EXCEPT ![d] = @ + 1]
    /\ Goto(d, "extract")
    /\ UNCHANGED <<jobs, crfToTest, wasProcessed, appLock, jobLock, journal,
                   outFile, outCopy, srcKind, outDir, ioVars, fnVars, runs, persistedCrfs>>

\* A job that is not PREPARED is passed over; after the last job the loop ends.
ExtractMetadataNext(d) ==
    /\ pc[d] = "extract"
    /\ IF HasCurrentJob(d)
       THEN /\ CurrentJob(d).stage.stage_name # PREPARED
            /\ idx' = [idx EXCEPT ![d] = @ + 1]
            /\ UNCHANGED pc
       ELSE /\ idx' = [idx EXCEPT ![d] = 1]
            /\ Goto(d, "filter")
    /\ UNCHANGED <<jobs, crfToTest, wasProcessed, appLock, jobLock, journal,
                   outFile, outCopy, srcKind, outDir, ioVars, fnVars, runs, persistedCrfs>>

\* ----------------------------------------------------------- _filter_jobs
\* A filter that takes no job for HDR.
IsHdrJobNever(job) == FALSE

IsHdrJob(job) == job.stage.stage_name = METADATA_EXTRACTED /\ job.attrs = "hdr"

\* The job is kept in filtered_jobs; after the last job the loop ends.
FilterJobsKeep(d) ==
    /\ pc[d] = "filter"
    /\ IF HasCurrentJob(d)
       THEN /\ ~IsHdrJob(CurrentJob(d))
            /\ idx' = [idx EXCEPT ![d] = @ + 1]
            /\ UNCHANGED pc
       ELSE /\ UNCHANGED idx
            /\ Goto(d, "prioritize")
    /\ UNCHANGED <<jobs, crfToTest, wasProcessed, appLock, jobLock, journal,
                   outFile, outCopy, srcKind, outDir, ioVars, fnVars, runs, persistedCrfs>>

\* Lines 119-121: an HDR source is marked SKIPPED_IS_HDR_VIDEO.
FilterJobsHdr(d) ==
    /\ pc[d] = "filter"
    /\ HasCurrentJob(d)
    /\ IsHdrJob(CurrentJob(d))
    /\ SetCurrentJob(d, Renamed(CurrentJob(d), -4, SKIPPED_IS_HDR_VIDEO))
    /\ Goto(d, "filter_save")
    /\ UNCHANGED <<idx, crfToTest, wasProcessed, appLock, jobLock, journal,
                   outFile, outCopy, srcKind, outDir, ioVars, fnVars, runs, persistedCrfs>>

\* Lines 122-123: the stage is written, the source is copied to output_dir,
\* and the job is left out of filtered_jobs.
FilterJobsHdrSave(d) ==
    /\ pc[d] = "filter_save"
    /\ journal' = Serialized(journal, CurrentJob(d))
    /\ persistedCrfs' = Recorded(persistedCrfs, CurrentJob(d))
    /\ outCopy' = outCopy \cup {<<outDir[d], CurrentJob(d).src>>}
    /\ jobs' = [jobs EXCEPT ![d] =
                  SubSeq(@, 1, idx[d] - 1) \o SubSeq(@, idx[d] + 1, Len(@))]
    /\ Goto(d, "filter")
    /\ UNCHANGED <<idx, crfToTest, wasProcessed, appLock, jobLock,
                   outFile, srcKind, outDir, ioVars, fnVars, runs>>

\* _prioritize_jobs
PrioritizeJobs(d) ==
    /\ pc[d] = "prioritize"
    /\ jobs' = [jobs EXCEPT ![d] = SortDesc([i \in 1..Len(@) |-> Prioritized(@[i])])]
    /\ idx' = [idx EXCEPT ![d] = 1]
    /\ Goto(d, "exec")
    /\ UNCHANGED <<crfToTest, wasProcessed, appLock, jobLock, journal,
                   outFile, outCopy, srcKind, outDir, ioVars, fnVars, runs, persistedCrfs>>

\* ------------------------------------------------------------- cleanup
\* A band test that takes every VMAF from vmaf_min on for acceptable.
OutOfBandBelow(vmaf) == vmaf < VmafMin

OutOfBand(vmaf) == vmaf < VmafMin \/ vmaf > VmafMax

\* _remove_all_non_final_iteration_files: the outputs it deletes.
NonFinalOutputs(job) ==
    {<<JobDir(job), job.src, job.iterations[i].crf>> : i \in
        {j \in 1..Len(job.iterations) :
            /\ OutOfBand(job.iterations[j].vmaf)
            /\ OutputExists(JobDir(job), job.src, job.iterations[j].crf)}}

\* _perform_job_cleanup
PerformJobCleanup(job) ==
    /\ outFile' = [k \in DOMAIN outFile \ NonFinalOutputs(job) |-> outFile[k]]
    /\ outCopy' = IF Cardinality(NonFinalOutputs(job)) >= Len(job.iterations)
                  THEN outCopy \cup {<<JobDir(job), job.src>>} ELSE outCopy
    /\ journal' = Serialized(journal, job)
    /\ persistedCrfs' = Recorded(persistedCrfs, job)

\* --------------------------------------------------------- _execute_jobs
\* After the last job main() ends and the application lock is released.
ExecuteJobsDone(d) ==
    /\ pc[d] = "exec"
    /\ ~HasCurrentJob(d)
    /\ LeaveMain(d, "exit_clean")
    /\ UNCHANGED <<journal, outFile, outCopy, srcKind, outDir, ioVars, fnVars, runs, persistedCrfs>>

\* An error handling that cleans up after every error stage, FAILED included.
HandleJobErrorCleaningAll(d) ==
    /\ pc[d] = "exec"
    /\ HasCurrentJob(d)
    /\ CurrentJob(d).stage.stage_number_from_1 < 0
    /\ PerformJobCleanup(CurrentJob(d))
    /\ SetCurrentJob(d, Saved(CurrentJob(d)))
    /\ idx' = [idx EXCEPT ![d] = @ + 1]
    /\ UNCHANGED <<pc, crfToTest, wasProcessed, appLock, jobLock, srcKind, outDir, ioVars, fnVars, runs>>

\* Lines 150-154 and _handle_job_error: a job in an error stage.
HandleJobError(d) ==
    /\ pc[d] = "exec"
    /\ HasCurrentJob(d)
    /\ CurrentJob(d).stage.stage_number_from_1 < 0
    /\ IF CurrentJob(d).stage.stage_name \in {STOPPED_VMAF_DELTA, UNREACHABLE_VMAF}
       THEN /\ PerformJobCleanup(CurrentJob(d))
            /\ SetCurrentJob(d, Saved(CurrentJob(d)))
       ELSE UNCHANGED <<jobs, journal, outFile, outCopy, persistedCrfs>>
    /\ idx' = [idx EXCEPT ![d] = @ + 1]
    /\ UNCHANGED <<pc, crfToTest, wasProcessed, appLock, jobLock, srcKind, outDir, ioVars, fnVars, runs>>

\* Lines 143-158: a job in a non-error stage; encode_job is entered, under the
\* job lock, for METADATA_EXTRACTED and SEARCHING_CRF. A job lock that cannot
\* be had raises Timeout, which encode_job catches at line 140.
ExecuteJob(d) ==
    /\ pc[d] = "exec"
    /\ HasCurrentJob(d)
    /\ CurrentJob(d).stage.stage_number_from_1 >= 0
    /\ wasProcessed' = [wasProcessed EXCEPT ![d] =
                          CurrentJob(d).stage.stage_name \in {CRF_FOUND, COMPLETED}]
    /\ IF /\ CurrentJob(d).stage.stage_name \in {METADATA_EXTRACTED, SEARCHING_CRF}
          /\ CanAcquire(jobLock[<<outDir[d], CurrentJob(d).src>>])
       THEN /\ jobLock' = [jobLock EXCEPT ![<<outDir[d], CurrentJob(d).src>>] = d]
            /\ Goto(d, "loop")
       ELSE /\ UNCHANGED jobLock
            /\ Goto(d, "post")
    /\ UNCHANGED <<jobs, idx, crfToTest, appLock, journal,
                   outFile, outCopy, srcKind, outDir, ioVars, fnVars, runs, persistedCrfs>>

\* encode_job, lines 37 and 140-141: the job lock file is held by some
\* process for the whole timeout; Timeout is caught and encode_job returns.
JobLockTimeout(d) ==
    /\ pc[d] = "exec"
    /\ HasCurrentJob(d)
    /\ CurrentJob(d).stage.stage_name \in {METADATA_EXTRACTED, SEARCHING_CRF}
    /\ wasProcessed' = [wasProcessed EXCEPT ![d] = FALSE]
    /\ SetCurrentJob(d, [CurrentJob(d) EXCEPT !.timeout = "job"])
    /\ Goto(d, "post")
    /\ UNCHANGED <<idx, crfToTest, appLock, jobLock, journal,
                   outFile, outCopy, srcKind, outDir, ioVars, fnVars, runs, persistedCrfs>>

\* ------------------------------------------------------------ encode_job
\* Lines 47-60: the window is empty.
SearchBoundsBroken(d) ==
    /\ pc[d] = "loop"
    /\ CurrentJob(d).stage.crf_range_min > CurrentJob(d).stage.crf_range_max
    /\ SetCurrentJob(d, WithStage(CurrentJob(d), UnreachableStage(CurrentJob(d).stage)))
    /\ Goto(d, "save_stage")
    /\ UNCHANGED <<idx, crfToTest, wasProcessed, appLock, jobLock, journal,
                   outFile, outCopy, srcKind, outDir, ioVars, fnVars, runs, persistedCrfs>>

\* Lines 62-79: the next CRF is predicted and checked against the window.
SearchPredict(d) ==
    /\ pc[d] = "loop"
    /\ CurrentJob(d).stage.crf_range_min <= CurrentJob(d).stage.crf_range_max
    /\ \E crf \in PredictNextCrf(CurrentJob(d).stage, CurrentJob(d).iterations) :
          IF IsCrfPredictionValid(CurrentJob(d).stage, crf)
          THEN /\ crfToTest' = [crfToTest EXCEPT ![d] = crf]
               /\ Goto(d, "encode")
               /\ UNCHANGED jobs
          ELSE /\ SetCurrentJob(d, WithStage(CurrentJob(d),
                                             UnreachableStage(CurrentJob(d).stage)))
               /\ Goto(d, "save_stage")
               /\ UNCHANGED crfToTest
    /\ UNCHANGED <<idx, wasProcessed, appLock, jobLock, journal,
                   outFile, outCopy, srcKind, outDir, ioVars, fnVars, runs, persistedCrfs>>

\* _encode_iteration, lines 193-204, and _encode_libx265, line 425: the stale
\* output is deleted and the encoder process starts writing the output file.
EncodeStart(d) ==
    /\ pc[d] = "encode"
    /\ outFile' = WithOutput(outFile, outDir[d], CurrentJob(d).src, crfToTest[d], "partial")
    /\ Goto(d, "encoding")
    /\ UNCHANGED <<jobs, idx, crfToTest, wasProcessed, appLock, jobLock, journal,
                   outCopy, srcKind, outDir, ioVars, fnVars, runs, persistedCrfs>>

\* _encode_libx265, lines 488-490: the encoder binary is not found, nothing
\* is written; line 226 raises EncodingError, which nothing catches.
EncodeToolMissing(d) ==
    /\ pc[d] = "encode"
    /\ outFile' = WithoutOutput(outFile, outDir[d], CurrentJob(d).src, crfToTest[d])
    /\ LeaveMain(d, "crashed")
    /\ UNCHANGED <<journal, outCopy, srcKind, outDir, ioVars, fnVars, runs, persistedCrfs>>

\* Lines 441-485 and 204-212: the encoder ends with status 0.
EncodeSucceeds(d) ==
    /\ pc[d] = "encoding"
    /\ outFile' = WithOutput(outFile, outDir[d], CurrentJob(d).src, crfToTest[d], "raw")
    /\ Goto(d, "vmaf")
    /\ UNCHANGED <<jobs, idx, crfToTest, wasProcessed, appLock, jobLock, journal,
                   outCopy, srcKind, outDir, ioVars, fnVars, runs, persistedCrfs>>

\* An offloaded encode that is recorded as an iteration before the retry.
EncodeLowResourcesRecorded(d) ==
    /\ pc[d] = "encoding"
    /\ outFile' = WithoutOutput(outFile, outDir[d], CurrentJob(d).src, crfToTest[d])
    /\ SetCurrentJob(d, [CurrentJob(d) EXCEPT
                            !.retried = TRUE,
                            !.iterations = Append(@, Iteration(crfToTest[d], VmafMin))])
    /\ Goto(d, "encode")
    /\ UNCHANGED <<idx, crfToTest, wasProcessed, appLock, jobLock, journal,
                   outCopy, srcKind, outDir, ioVars, fnVars, runs, persistedCrfs>>

\* Lines 450, 486-487, 502-505 and 214-220: the encoder was offloaded for
\* memory pressure; its partial output is deleted and, after the sleep, the
\* same CRF is encoded again.
EncodeLowResources(d) ==
    /\ pc[d] = "encoding"
    /\ outFile' = WithoutOutput(outFile, outDir[d], CurrentJob(d).src, crfToTest[d])
    /\ SetCurrentJob(d, [CurrentJob(d) EXCEPT !.retried = TRUE])
    /\ Goto(d, "encode")
    /\ UNCHANGED <<idx, crfToTest, wasProcessed, appLock, jobLock, journal,
                   outCopy, srcKind, outDir, ioVars, fnVars, runs, persistedCrfs>>

\* Lines 481-483, 496-497, 502-505 and 224-226: the encoder ends with a
\* non-zero status, its output is deleted; EncodingError leaves encode_job,
\* _execute_jobs and main().
EncodeFails(d) ==
    /\ pc[d] = "encoding"
    /\ outFile' = WithoutOutput(outFile, outDir[d], CurrentJob(d).src, crfToTest[d])
    /\ LeaveMain(d, "crashed")
    /\ UNCHANGED <<journal, outCopy, srcKind, outDir, ioVars, fnVars, runs, persistedCrfs>>

\* calculate_vmaf holds the EXCLUSIVE file-operation lock of the source
\* (input_dir/<s>.mp4.lock) while it runs: some other driver, working for
\* another output_dir, is measuring the same source.
SourceLocked(d) ==
    \E e \in Drivers \ {d} :
        /\ pc[e] = "vmaf_running"
        /\ CurrentJob(e).src = CurrentJob(d).src

\* vmaf_comparator.py, lines 38-39: the locks of the source and of the
\* output are acquired and the VMAF process starts.
VmafStart(d) ==
    /\ pc[d] = "vmaf"
    /\ ~SourceLocked(d)
    /\ Goto(d, "vmaf_running")
    /\ UNCHANGED <<jobs, idx, crfToTest, wasProcessed, appLock, jobLock, journal,
                   outFile, outCopy, srcKind, outDir, ioVars, fnVars, runs, persistedCrfs>>

\* The lock of the source stays held for the whole timeout: Timeout is
\* raised and caught at line 140 of encode_job, which returns.
VmafLockTimeout(d) ==
    /\ pc[d] = "vmaf"
    /\ SourceLocked(d)
    /\ SetCurrentJob(d, [CurrentJob(d) EXCEPT !.timeout = "nested"])
    /\ jobLock' = [jobLock EXCEPT ![<<outDir[d], CurrentJob(d).src>>] = Released(@, d)]
    /\ Goto(d, "post")
    /\ UNCHANGED <<idx, crfToTest, wasProcessed, appLock, journal,
                   outFile, outCopy, srcKind, outDir, ioVars, fnVars, runs, persistedCrfs>>

\* Lines 241-286: VMAF is measured, the iteration is appended to the job in
\* memory and the provenance metadata is embedded into the output.
VmafSucceeds(d) ==
    /\ pc[d] = "vmaf_running"
    /\ \E vmaf \in VmafValues :
          SetCurrentJob(d, [CurrentJob(d) EXCEPT
                              !.iterations = Append(@, Iteration(crfToTest[d], vmaf))])
    /\ outFile' = WithOutput(outFile, outDir[d], CurrentJob(d).src, crfToTest[d], "emb")
    /\ Goto(d, "decide")
    /\ UNCHANGED <<idx, crfToTest, wasProcessed, appLock, jobLock, journal,
                   outCopy, srcKind, outDir, ioVars, fnVars, runs, persistedCrfs>>

\* Lines 252-258: the VMAF process was offloaded for memory pressure; after
\* the sleep calculate_vmaf is called again.
VmafLowResources(d) ==
    /\ pc[d] = "vmaf_running"
    /\ SetCurrentJob(d, [CurrentJob(d) EXCEPT !.retried = TRUE])
    /\ Goto(d, "vmaf")
    /\ UNCHANGED <<idx, crfToTest, wasProcessed, appLock, jobLock, journal,
                   outFile, outCopy, srcKind, outDir, ioVars, fnVars, runs, persistedCrfs>>

\* The VMAF process fails: RuntimeError leaves encode_job and main().
VmafFails(d) ==
    /\ pc[d] = "vmaf_running"
    /\ LeaveMain(d, "crashed")
    /\ UNCHANGED <<journal, outFile, outCopy, srcKind, outDir, ioVars, fnVars, runs, persistedCrfs>>

LastIteration(job) == job.iterations[Len(job.iterations)]

\* Lines 87-136: the stage after the iteration.
SearchDecide(d) ==
    /\ pc[d] = "decide"
    /\ SetCurrentJob(d, WithStage(CurrentJob(d),
            DecidedStage(CurrentJob(d).stage, CurrentJob(d).iterations,
                         crfToTest[d], LastIteration(CurrentJob(d)).vmaf)))
    /\ Goto(d, "save_stage")
    /\ UNCHANGED <<idx, crfToTest, wasProcessed, appLock, jobLock, journal,
                   outFile, outCopy, srcKind, outDir, ioVars, fnVars, runs, persistedCrfs>>

\* serialize_to_json of lines 59, 73, 100, 117 and 137; the loop goes on in
\* SEARCHING_CRF and is left, with the job lock, in any other stage.
SearchSave(d) ==
    /\ pc[d] = "save_stage"
    /\ journal' = Serialized(journal, CurrentJob(d))
    /\ persistedCrfs' = Recorded(persistedCrfs, CurrentJob(d))
    /\ SetCurrentJob(d, Saved(CurrentJob(d)))
    /\ IF CurrentJob(d).stage.stage_name = SEARCHING_CRF
       THEN /\ Goto(d, "loop")
            /\ UNCHANGED jobLock
       ELSE /\ Goto(d, "post")
            /\ jobLock' = [jobLock EXCEPT ![<<outDir[d], CurrentJob(d).src>>] = Released(@, d)]
    /\ UNCHANGED <<idx, crfToTest, wasProcessed, appLock,
                   outFile, outCopy, srcKind, outDir, ioVars, fnVars, runs>>

\* Lines 160-171: the job time is written unless the job was already
\* processed, and a job in a non-error stage is marked COMPLETED.
ExecutePost(d) ==
    /\ pc[d] = "post"
    /\ LET job == CurrentJob(d)
           timed == IF wasProcessed[d] THEN job ELSE Saved(job)
       IN  /\ journal' = IF wasProcessed[d] THEN journal ELSE Serialized(journal, job)
           /\ persistedCrfs' = IF wasProcessed[d] THEN persistedCrfs
                               ELSE Recorded(persistedCrfs, job)
           /\ IF job.stage.stage_number_from_1 >= 0
              THEN /\ SetCurrentJob(d, IF job.stage.stage_name # COMPLETED
                                       THEN Renamed(timed, 5, COMPLETED) ELSE timed)
                   /\ Goto(d, "complete_save")
                   /\ UNCHANGED idx
              ELSE /\ SetCurrentJob(d, timed)
                   /\ idx' = [idx EXCEPT ![d] = @ + 1]
                   /\ Goto(d, "exec")
    /\ UNCHANGED <<crfToTest, wasProcessed, appLock, jobLock,
                   outFile, outCopy, srcKind, outDir, ioVars, fnVars, runs>>

\* Line 172: the COMPLETED stage is written.
ExecuteCompleteSave(d) ==
    /\ pc[d] = "complete_save"
    /\ journal' = Serialized(journal, CurrentJob(d))
    /\ persistedCrfs' = Recorded(persistedCrfs, CurrentJob(d))
    /\ SetCurrentJob(d, Saved(CurrentJob(d)))
    /\ Goto(d, "cleanup")
    /\ UNCHANGED <<idx, crfToTest, wasProcessed, appLock, jobLock,
                   outFile, outCopy, srcKind, outDir, ioVars, fnVars, runs>>

\* Lines 175-179: cleanup of a CRF_FOUND or COMPLETED job.
ExecuteCleanup(d) ==
    /\ pc[d] = "cleanup"
    /\ IF CurrentJob(d).stage.stage_name \in {CRF_FOUND, COMPLETED}
       THEN PerformJobCleanup(CurrentJob(d))
       ELSE UNCHANGED <<journal, outFile, outCopy, persistedCrfs>>
    /\ idx' = [idx EXCEPT ![d] = @ + 1]
    /\ Goto(d, "exec")
    /\ UNCHANGED <<jobs, crfToTest, wasProcessed, appLock, jobLock, srcKind, outDir, ioVars, fnVars, runs>>

\* delete_file: the files after the call. With in_use, the file belongs to
\* a process that was killed and not waited for: the file is removed, or it
\* stays, either because the unlink raises OSError (a file that is still open
\* cannot be removed on Windows; delete_file logs and returns False) or
\* because the dying process creates it after the call.
DeleteFile(files, o, s, crf, in_use) ==
    IF in_use THEN {WithoutOutput(files, o, s, crf), files}
    ELSE {WithoutOutput(files, o, s, crf)}

\* A keyboard interrupt while the application lock is held: it is caught in
\* main(), lines 67-68. While the encoder runs, _encode_libx265 kills it
\* and, without waiting for its end, deletes its partial output first (lines
\* 491-495 and 502-505).
Interrupt(d) ==
    /\ pc[d] \notin Terminated \cup {"acquire"}
    /\ IF pc[d] = "encoding"
       THEN outFile' \in DeleteFile(outFile, outDir[d], CurrentJob(d).src, crfToTest[d], TRUE)
       ELSE outFile' = outFile
    /\ LeaveMain(d, "exit_interrupt")
    /\ UNCHANGED <<journal, outCopy, srcKind, outDir, ioVars, fnVars, runs, persistedCrfs>>

Next ==
    \E d \in Drivers :
        \/ Start(d)
        \/ AcquireApplicationLock(d)
        \/ ApplicationLockTimeout(d)
        \/ LoadExistingJobs(d)
        \/ CreateJobsFromSourceFiles(d)
        \/ ValidateJobs(d)
        \/ ExtractMetadata(d)
        \/ ExtractMetadataFails(d)
        \/ ExtractSave(d)
        \/ ExtractSaveFails(d)
        \/ ExtractFailSave(d)
        \/ ExtractFailSaveSwallowed(d)
        \/ ExtractMetadataNext(d)
        \/ FilterJobsKeep(d)
        \/ FilterJobsHdr(d)
        \/ FilterJobsHdrSave(d)
        \/ PrioritizeJobs(d)
        \/ ExecuteJobsDone(d)
        \/ HandleJobError(d)
        \/ ExecuteJob(d)
        \/ JobLockTimeout(d)
        \/ SearchBoundsBroken(d)
        \/ SearchPredict(d)
        \/ EncodeStart(d)
        \/ EncodeToolMissing(d)
        \/ EncodeSucceeds(d)
        \/ EncodeLowResources(d)
        \/ EncodeFails(d)
        \/ VmafStart(d)
        \/ VmafLockTimeout(d)
        \/ VmafSucceeds(d)
        \/ VmafLowResources(d)
        \/ VmafFails(d)
        \/ SearchDecide(d)
        \/ SearchSave(d)
        \/ ExecutePost(d)
        \/ ExecuteCompleteSave(d)
        \/ ExecuteCleanup(d)
        \/ Interrupt(d)

Spec == Init /\ [][Next]_vars

\* ------------------------------------------------------ json_serializer.py
At(c, label) == client[c].at = label

\* acquire_metadata_lock(p, mode) by thread c: the lock file it locks.
MetadataLock(c, mode) == GenerateLockPath(MetadataPath, mode, c)

\* Thread c is inside a with-block of the metadata lock in the given mode.
Holds(c, mode) == lockFiles[MetadataLock(c, mode)] = c

\* serialize_to_json, lines 11-14: the call is made and the dump is built.
SerializeToJson(c) ==
    /\ At(c, "idle")
    /\ \E data \in Payloads :
          /\ client' = [client EXCEPT ![c] = [at |-> "ser_acquire", arg |-> <<data>>,
                                              result |-> NoResult]]
          /\ passed' = passed \cup {data}
    /\ UNCHANGED <<mainVars, fnVars, lockFiles, disk>>

\* Line 16: the EXCLUSIVE lock is acquired (and line 17, the directory made).
SerializeAcquire(c) ==
    /\ At(c, "ser_acquire")
    /\ CanAcquire(lockFiles[MetadataLock(c, EXCLUSIVE)])
    /\ lockFiles' = [lockFiles EXCEPT ![MetadataLock(c, EXCLUSIVE)] = c]
    /\ client' = [client EXCEPT ![c].at = "ser_open"]
    /\ UNCHANGED <<mainVars, fnVars, disk, passed>>

\* Line 16 and lines 27-29: the lock file stayed held for the whole timeout.
SerializeLockTimeout(c) ==
    /\ At(c, "ser_acquire")
    /\ ~CanAcquire(lockFiles[MetadataLock(c, EXCLUSIVE)])
    /\ client' = [client EXCEPT ![c] = [IdleClient EXCEPT !.result = Raised("Timeout")]]
    /\ UNCHANGED <<mainVars, fnVars, lockFiles, disk, passed>>

\* Lines 20-21: the temporary file is created, or truncated, by open(.., "w").
SerializeOpen(c) ==
    /\ At(c, "ser_open")
    /\ disk' = WithFile(disk, WithSuffixTmp(MetadataPath), Prefix(ModelDumpJson(client[c].arg[1]), 0))
    /\ client' = [client EXCEPT ![c].at = "ser_write"]
    /\ UNCHANGED <<mainVars, fnVars, lockFiles, passed>>

\* Line 22 and the close of line 21: one more chunk of the dump reaches the file.
SerializeWrite(c) ==
    /\ At(c, "ser_write")
    /\ disk[WithSuffixTmp(MetadataPath)].chunks < DumpChunks
    /\ disk' = [disk EXCEPT ![WithSuffixTmp(MetadataPath)].chunks = @ + 1]
    /\ UNCHANGED <<mainVars, fnVars, client, lockFiles, passed>>

\* Line 23: the temporary file is renamed over the journal, atomically.
SerializeReplace(c) ==
    /\ At(c, "ser_write")
    /\ disk[WithSuffixTmp(MetadataPath)].chunks = DumpChunks
    /\ disk' = IF WithSuffixTmp(MetadataPath) = MetadataPath THEN disk
               ELSE WithoutFile(WithFile(disk, MetadataPath, disk[WithSuffixTmp(MetadataPath)]),
                                WithSuffixTmp(MetadataPath))
    /\ client' = [client EXCEPT ![c].at = "ser_release"]
    /\ UNCHANGED <<mainVars, fnVars, lockFiles, passed>>

\* The end of the with-block of line 16: the lock is released.
SerializeRelease(c) ==
    /\ At(c, "ser_release")
    /\ lockFiles' = [lockFiles EXCEPT ![MetadataLock(c, EXCLUSIVE)] = Released(@, c)]
    /\ client' = [client EXCEPT ![c] = [IdleClient EXCEPT !.result = [kind |-> "saved", value |-> client[c].arg]]]
    /\ UNCHANGED <<mainVars, fnVars, disk, passed>>

\* load_from_json, lines 35-36: there is no file.
LoadNotFound(c) ==
    /\ At(c, "idle")
    /\ MetadataPath \notin DOMAIN disk
    /\ client[c].result # Raised("FileNotFoundError")
    /\ client' = [client EXCEPT ![c] = [IdleClient EXCEPT !.result = Raised("FileNotFoundError")]]
    /\ UNCHANGED <<mainVars, fnVars, lockFiles, disk, passed>>

\* Line 35: the file is there.
LoadFromJson(c) ==
    /\ At(c, "idle")
    /\ MetadataPath \in DOMAIN disk
    /\ client' = [client EXCEPT ![c] = [IdleClient EXCEPT !.at = "load_acquire"]]
    /\ UNCHANGED <<mainVars, fnVars, lockFiles, disk, passed>>

\* Line 38: the SHARED lock is acquired.
LoadAcquire(c) ==
    /\ At(c, "load_acquire")
    /\ CanAcquire(lockFiles[MetadataLock(c, SHARED)])
    /\ lockFiles' = [lockFiles EXCEPT ![MetadataLock(c, SHARED)] = c]
    /\ client' = [client EXCEPT ![c].at = "load_read"]
    /\ UNCHANGED <<mainVars, fnVars, disk, passed>>

\* Lines 40-47: the file is read and parsed.
LoadRead(c) ==
    /\ At(c, "load_read")
    /\ client' = [client EXCEPT ![c].at = "load_release",
                                ![c].result = IF MetadataPath \in DOMAIN disk
                                              THEN ModelValidateJson(disk[MetadataPath])
                                              ELSE Raised("ValueError")]
    /\ UNCHANGED <<mainVars, fnVars, lockFiles, disk, passed>>

\* The end of the with-block of line 38: the lock is released.
LoadRelease(c) ==
    /\ At(c, "load_release")
    /\ lockFiles' = [lockFiles EXCEPT ![MetadataLock(c, SHARED)] = Released(@, c)]
    /\ client' = [client EXCEPT ![c].at = "idle"]
    /\ UNCHANGED <<mainVars, fnVars, disk, passed>>

\* The process of thread c dies inside a call: the operating system drops
\* its locks, the files stay as they are.
ClientCrash(c) ==
    /\ ~At(c, "idle")
    /\ lockFiles' = [f \in LockPaths |-> Released(lockFiles[f], c)]
    /\ client' = [client EXCEPT ![c] = [IdleClient EXCEPT !.result = Raised("crashed")]]
    /\ UNCHANGED <<mainVars, fnVars, disk, passed>>

NextJournal ==
    \E c \in Clients :
        \/ SerializeToJson(c)
        \/ SerializeAcquire(c)
        \/ SerializeLockTimeout(c)
        \/ SerializeOpen(c)
        \/ SerializeWrite(c)
        \/ SerializeReplace(c)
        \/ SerializeRelease(c)
        \/ LoadNotFound(c)
        \/ LoadFromJson(c)
        \/ LoadAcquire(c)
        \/ LoadRead(c)
        \/ LoadRelease(c)
        \/ ClientCrash(c)

SpecJournal == Init /\ [][NextJournal]_vars

\* ------------------------------------------------------ migration_manager.py
\* The schema versions a journal or the configuration may name.
MaxSchemaVersion == 4

\* MigrationManager._steps: the migrators, in order.
Steps == <<[source_version |-> 1, target_version |-> 3]>>

\* _find_migrator: the indices of the steps whose source_version is the
\* version (the first is taken); none raises MigrationException.
FindMigrator(version) == {i \in 1..Len(Steps) : Steps[i].source_version = version}

\* V1ToV3Migrator._migrate_file_attributes: int(size_mb * 1024 * 1024).
MigrateFileAttributes(fa) ==
    [fa EXCEPT !.file_size_bytes =
        (IF fa.file_size_megabytes = None THEN 0 ELSE fa.file_size_megabytes) \div 2]

\* The parsed journals: schema_version (0: no such key), source_video as
\* <<>> (no such key) or its file_attributes, iterations likewise as the
\* file_attributes of each. A file_attributes dict holds file_size_megabytes
\* in half bytes (None: no such key) and file_size_bytes once migrated.
JournalDicts ==
    [schema_version : 0..MaxSchemaVersion,
     source_video : {<<>>} \cup {<<fa>> : fa \in [file_size_megabytes : {None, 0, 3},
                                                   file_size_bytes : {None}]},
     has_iterations : BOOLEAN,
     iterations : {<<>>, <<[file_size_megabytes |-> 3, file_size_bytes |-> None]>>}]

\* V1ToV3Migrator.migrate: <<>> when a KeyError makes it raise
\* MigrationException, else the migrated dict.
Migrate(step, data) ==
    IF data.source_video = <<>> \/ ~data.has_iterations THEN <<>>
    ELSE <<[data EXCEPT
              !.source_video = <<MigrateFileAttributes(data.source_video[1])>>,
              !.iterations = [i \in 1..Len(data.iterations) |->
                                MigrateFileAttributes(data.iterations[i])],
              !.schema_version = step.target_version]>>

\* A call MigrationManager(target).apply(data), at line 26.
InitMigration ==
    /\ InitDrivers
    /\ composer = NoCall
    /\ prioritizer = NoCall
    /\ embedding = NoCall
    /\ search = NoCall
    /\ \E data \in JournalDicts : \E target \in 1..MaxSchemaVersion :
          migration = [at |-> "apply", given |-> data, target |-> target, data |-> data,
                       current_v |-> IF data.schema_version = 0 THEN 1
                                     ELSE data.schema_version,
                       applied |-> <<>>, reason |-> "none"]

\* apply, lines 32-41: one test of the loop and, below the target, one
\* migrator looked up and applied.
Apply ==
    /\ migration.at = "apply"
    /\ IF migration.current_v >= migration.target
       THEN migration' = [migration EXCEPT !.at = "returned"]
       ELSE IF FindMigrator(migration.current_v) = {}
       THEN migration' = [migration EXCEPT !.at = "raised", !.reason = "No migrator found"]
       ELSE LET step == Steps[CHOOSE i \in FindMigrator(migration.current_v) :
                                \A j \in FindMigrator(migration.current_v) : i <= j]
                migrated == Migrate(step, migration.data)
            IN  IF migrated = <<>>
                THEN migration' = [migration EXCEPT !.at = "raised", !.reason = "Model invalid"]
                ELSE migration' = [migration EXCEPT
                                      !.data = migrated[1],
                                      !.current_v = migrated[1].schema_version,
                                      !.applied = Append(@, step.source_version)]
    /\ UNCHANGED <<mainVars, ioVars, composer, prioritizer, embedding, search>>

SpecMigration == InitMigration /\ [][Apply]_vars /\ WF_vars(Apply)

\* ---------------------------------------------- _prioritize_jobs, _execute_jobs
\* The lists of at most n jobs: a source with its probed attributes, or
\* with none (video_attributes is None after a failed extraction).
RECURSIVE JobLists(_)
JobLists(n) ==
    IF n = 0 THEN {<<>>}
    ELSE JobLists(n - 1) \cup
         {Append(s, [src |-> src, attrs |-> attrs, priority |-> 0]) :
            s \in {l \in JobLists(n - 1) : Len(l) = n - 1},
            src \in DOMAIN SourceAttributes, attrs \in {"none", "sdr"}}

\* main() at line 64, on a filtered list.
InitPrioritize ==
    /\ InitDrivers
    /\ composer = NoCall
    /\ migration = NoCall
    /\ embedding = NoCall
    /\ search = NoCall
    /\ \E given \in JobLists(MaxJobs) :
          prioritizer = [at |-> "prioritize", given |-> given, jobs |-> given,
                         processed |-> <<>>]

\* _prioritize_jobs: every job scored, then the list sorted in place.
PrioritizeJobsList ==
    /\ prioritizer.at = "prioritize"
    /\ prioritizer' = [prioritizer EXCEPT
          !.at = "execute",
          !.jobs = SortDesc([i \in 1..Len(@) |-> Prioritized(@[i])])]
    /\ UNCHANGED <<mainVars, ioVars, composer, migration, embedding, search>>

\* _execute_jobs: the next pass of `for job in jobs_list`, or its end.
ExecuteJobsList ==
    /\ prioritizer.at = "execute"
    /\ IF Len(prioritizer.processed) < Len(prioritizer.jobs)
       THEN prioritizer' = [prioritizer EXCEPT
              !.processed = Append(@, prioritizer.jobs[Len(@) + 1])]
       ELSE prioritizer' = [prioritizer EXCEPT !.at = "done"]
    /\ UNCHANGED <<mainVars, ioVars, composer, migration, embedding, search>>

SpecPrioritize == InitPrioritize /\ [][PrioritizeJobsList \/ ExecuteJobsList]_vars

\* ------------------------------------------------------ compose_jobs, in full
\* The SHA-256 values files can have.
MaxHash == 2

\* The journal suffix (JOB_FILE_SUFFIX) and the files of the two directories,
\* as stem and suffix.
JobFileSuffix == "_encoderdata.json"
InputNames == {[stem |-> "a", suffix |-> ".mp4"], [stem |-> "b", suffix |-> ".MP4"],
               [stem |-> "n", suffix |-> ".txt"]}
JobsDirNames == {[stem |-> "a", suffix |-> JobFileSuffix],
                 [stem |-> "b", suffix |-> JobFileSuffix],
                 [stem |-> "notes", suffix |-> ".txt"]}

\* A test that takes every file for a source video.
IsSourceVideoAny(name) == TRUE

\* item.suffix.lower() == ".mp4"
IsSourceVideo(name) == name.suffix \in {".mp4", ".MP4"}

\* The schema version of the configuration: the newest migrator's target.
SchemaVersion == Steps[Len(Steps)].target_version

\* What a file of the jobs directory can hold: text that is no JSON, or a
\* JSON object with its schema_version, whether the object (migrated) is a
\* JobData, the source's file_name and sha256_hash and the sha256_hash of
\* the iterations.
JournalContents ==
    {[kind |-> "text", schema_version |-> 0, is_job_data |-> FALSE,
      file_name |-> [stem |-> "a", suffix |-> ".mp4"], sha256_hash |-> 1,
      iteration_hashes |-> {}]}
    \cup [kind : {"dict"}, schema_version : {2}, is_job_data : {TRUE},
          file_name : {[stem |-> "a", suffix |-> ".mp4"]}, sha256_hash : {1},
          iteration_hashes : {{}}]
    \cup [kind : {"dict"}, schema_version : {1, SchemaVersion}, is_job_data : {FALSE},
          file_name : {[stem |-> "a", suffix |-> ".mp4"]}, sha256_hash : {1},
          iteration_hashes : {{}}]
    \cup [kind : {"dict"}, schema_version : {1}, is_job_data : {TRUE},
          file_name : {[stem |-> "a", suffix |-> ".mp4"]}, sha256_hash : {1},
          iteration_hashes : {{}}]
    \cup [kind : {"dict"}, schema_version : {SchemaVersion}, is_job_data : {TRUE},
          file_name : {n \in InputNames : IsSourceVideo(n)}, sha256_hash : 1..MaxHash,
          iteration_hashes : {{}} \cup {{h} : h \in 1..MaxHash}]

\* MigrationManager.apply on the schema_version alone: the version reached,
\* or 0 when no migrator is found.
RECURSIVE MigratedVersion(_)
MigratedVersion(v) ==
    IF v >= SchemaVersion THEN v
    ELSE IF FindMigrator(v) = {} THEN 0
    ELSE MigratedVersion(Steps[CHOOSE i \in FindMigrator(v) :
                                  \A j \in FindMigrator(v) : i <= j].target_version)

\* A load that does not migrate.
LoadedJobDataUnmigrated(content) ==
    IF content.kind = "text" \/ ~content.is_job_data THEN <<>> ELSE <<content>>

\* load_from_json on a journal: <<>> when it raises ValueError (no JSON, a
\* MigrationException, or no JobData), else the JobData.
LoadedJobData(content) ==
    IF content.kind = "text" \/ MigratedVersion(content.schema_version) = 0
       \/ ~content.is_job_data
    THEN <<>>
    ELSE <<[content EXCEPT !.schema_version = MigratedVersion(@)]>>

\* A validation that only asks for the source file to be there.
ValidJobDataByName(input, job_data) == input[job_data.file_name] # 0

\* _validate_job_data: the source is in input_dir under file_name (hash 0:
\* no such file) and has the stored hash.
ValidJobData(input, job_data) ==
    /\ input[job_data.file_name] # 0
    /\ input[job_data.file_name] = job_data.sha256_hash

\* A jobs_map keyed by the source hashes only.
JobsMapSourcesOnly(existing_jobs) ==
    {existing_jobs[i].job_data.sha256_hash : i \in 1..Len(existing_jobs)}

\* jobs_map of _create_jobs_from_source_files: its keys.
JobsMap(existing_jobs) ==
    {existing_jobs[i].job_data.sha256_hash : i \in 1..Len(existing_jobs)}
    \cup UNION {existing_jobs[i].job_data.iteration_hashes : i \in 1..Len(existing_jobs)}

\* A call of compose_jobs: input_dir (the hash of each file, 0: no such
\* file), whether firefly/data/jobs exists, and its files (<<>>: no such
\* file; the text file notes.txt holds no journal).
InitCompose ==
    /\ InitDrivers
    /\ migration = NoCall
    /\ prioritizer = NoCall
    /\ embedding = NoCall
    /\ search = NoCall
    /\ \E input \in [InputNames -> 0..MaxHash] :
       \E exists \in BOOLEAN :
       \E jobs_dir \in [JobsDirNames -> {<<>>} \cup {<<c>> : c \in JournalContents}] :
          /\ input[[stem |-> "n", suffix |-> ".txt"]] = 1
          /\ jobs_dir[[stem |-> "notes", suffix |-> ".txt"]] \in
                {<<>>} \cup {<<c>> : c \in {x \in JournalContents : x.kind = "text"}}
          /\ ~exists => \A n \in JobsDirNames : jobs_dir[n] = <<>>
          /\ composer = [at |-> "compose", input |-> input, jobs_dir_exists |-> exists,
                         jobs_dir_made |-> FALSE,
                         given |-> jobs_dir, jobs_dir |-> jobs_dir,
                         output_dir |-> [n \in InputNames |-> <<>>],
                         todo |-> {}, existing_jobs |-> <<>>, new_jobs |-> <<>>]

\* compose_jobs, lines 38-46: the directories are made and the jobs
\* directory is listed.
ComposeJobs ==
    /\ composer.at = "compose"
    /\ composer' = [composer EXCEPT
          !.at = "load", !.jobs_dir_exists = TRUE, !.jobs_dir_made = ~composer.jobs_dir_exists,
          !.todo = {n \in JobsDirNames : composer.jobs_dir[n] # <<>>}]
    /\ UNCHANGED <<mainVars, ioVars, migration, prioritizer, embedding, search>>

\* _load_existing_jobs: one pass of the loop over the directory, in any
\* order, or the return followed by the listing of input_dir.
LoadExistingJob ==
    /\ composer.at = "load"
    /\ IF composer.todo = {}
       THEN composer' = [composer EXCEPT
              !.at = "create",
              !.todo = {n \in InputNames : composer.input[n] # 0}]
       ELSE \E file \in composer.todo :
              LET loaded == LoadedJobData(composer.jobs_dir[file][1])
                  rest == [composer EXCEPT !.todo = @ \ {file}]
              IN  IF file.suffix # JobFileSuffix
                  THEN composer' = rest
                  ELSE IF loaded = <<>> \/ ~ValidJobData(composer.input, loaded[1])
                  THEN composer' = [rest EXCEPT !.jobs_dir[file] = <<>>]
                  ELSE composer' = [rest EXCEPT
                         !.existing_jobs = Append(@, [path |-> file, job_data |-> loaded[1]])]
    /\ UNCHANGED <<mainVars, ioVars, migration, prioritizer, embedding, search>>

\* _create_jobs_from_source_files: one pass of the loop over input_dir, in
\* any order, or the return.
CreateJobFromSourceFile ==
    /\ composer.at = "create"
    /\ IF composer.todo = {}
       THEN composer' = [composer EXCEPT !.at = "done"]
       ELSE \E item \in composer.todo :
              LET rest == [composer EXCEPT !.todo = @ \ {item}]
                  job == InitializeEncoderJob(item, NewJsonPath("o1", item.stem))
              IN  IF ~IsSourceVideo(item) \/ composer.input[item] \in JobsMap(composer.existing_jobs)
                  THEN composer' = rest
                  ELSE composer' = [rest EXCEPT
                         !.output_dir[item] = <<JobDataOf(job)>>,
                         !.new_jobs = Append(@, job)]
    /\ UNCHANGED <<mainVars, ioVars, migration, prioritizer, embedding, search>>

SpecCompose ==
    InitCompose /\ [][ComposeJobs \/ LoadExistingJob \/ CreateJobFromSourceFile]_vars

\* ------------------------------------------------------------ properties
\* The job data held in the memory of a running driver, and in journal files.
JobDataInMemory ==
    UNION {{JobDataOf(jobs[d][i]) : i \in 1..Len(jobs[d])} : d \in Drivers}
JobDataInJournal == {journal[p][1] : p \in {q \in JournalPaths : journal[q] # <<>>}}
AllJobData == JobDataInMemory \cup JobDataInJournal

InPipeline(d) == pc[d] \notin Terminated \cup {"acquire"}

\* C1: a run that finds the journal written by an earlier run composes its job
\* from that journal (stage, window, last_crf, last_vmaf and iterations as
\* persisted), and never encodes a CRF already recorded for the source.
C1_ResumesFromJournal ==
    [][\A d \in Drivers :
          /\ (pc[d] = "create" /\ pc'[d] = "validate")
                => \A p \in JournalPaths :
                      journal[p] # <<>>
                        => \E i \in 1..Len(jobs'[d]) :
                              JobDataOf(jobs'[d][i]) = journal[p][1]
          /\ (pc[d] = "loop" /\ pc'[d] = "encode")
                => crfToTest'[d] \notin persistedCrfs[<<outDir[d], CurrentJob(d).src>>]
      ]_vars

\* C2: every journal whose stage is CRF_FOUND or COMPLETED has a collapsed
\* window, crf_range_min = crf_range_max = last_crf, and an iteration at that
\* CRF whose VMAF is last_vmaf and lies in the band.
C2_FoundWindowCollapsed ==
    \A data \in JobDataInJournal :
        data.stage.stage_name \in {CRF_FOUND, COMPLETED}
          => /\ data.stage.crf_range_min = data.stage.crf_range_max
             /\ data.stage.crf_range_max = data.stage.last_crf
             /\ \E i \in 1..Len(data.iterations) :
                   /\ data.iterations[i].crf = data.stage.last_crf
                   /\ data.iterations[i].vmaf = data.stage.last_vmaf
                   /\ VmafMin <= data.iterations[i].vmaf
                   /\ data.iterations[i].vmaf <= VmafMax

C4_InBandEndsSearch ==
    [][\A d \in Drivers :
          /\ (/\ pc[d] = "decide" /\ pc'[d] = "save_stage"
              /\ VmafMin <= LastIteration(CurrentJob(d)).vmaf
              /\ LastIteration(CurrentJob(d)).vmaf <= VmafMax)
                => jobs'[d][idx[d]].stage =
                      [stage_number_from_1 |-> 4, stage_name |-> CRF_FOUND,
                       crf_range_min |-> crfToTest[d], crf_range_max |-> crfToTest[d],
                       last_vmaf |-> LastIteration(CurrentJob(d)).vmaf,
                       last_crf |-> crfToTest[d]]
          /\ (/\ pc[d] = "save_stage" /\ pc'[d] \notin Terminated \cup {"save_stage"}
              /\ CurrentJob(d).stage.stage_name = CRF_FOUND)
                => /\ pc'[d] = "post"
                   /\ journal'[CurrentJob(d).path] = <<JobDataOf(CurrentJob(d))>>
          /\ (pc[d] = "loop" /\ pc'[d] = "encode")
                => \A i \in 1..Len(CurrentJob(d).iterations) :
                      \/ CurrentJob(d).iterations[i].vmaf < VmafMin
                      \/ CurrentJob(d).iterations[i].vmaf > VmafMax
      ]_vars

\* A persisted CRF_FOUND stage reached by an in-band iteration that the
\* efficiency check would have stopped.
C4_FoundDespiteInefficiency ==
    \E data \in JobDataInJournal :
        /\ data.stage.stage_name = CRF_FOUND
        /\ Len(data.iterations) >= 2
        /\ LET n == Len(data.iterations)
               vmaf_delta == Abs(data.iterations[n].vmaf - data.iterations[n - 1].vmaf)
               crf_delta == Abs(data.iterations[n].crf - data.iterations[n - 1].crf)
           IN  /\ crf_delta > 0
               /\ vmaf_delta < EfficiencyThreshold * crf_delta
               /\ data.stage.last_crf = data.iterations[n].crf

\* C5: the stage of a job in memory is never more than one transition ahead
\* of the stage in its journal.
C5_AtMostOneAhead ==
    \A d \in Drivers : \A i \in 1..Len(jobs[d]) : jobs[d][i].ahead <= 1

\* C6: the non-negative stage numbers seen in a journal file never decrease,
\* across any number of runs.
C6_StageNumberMonotone ==
    [][\A p \in JournalPaths :
          (/\ journal[p] # <<>> /\ journal'[p] # <<>>
           /\ journal[p][1].stage.stage_number_from_1 >= 0
           /\ journal'[p][1].stage.stage_number_from_1 >= 0)
            => journal'[p][1].stage.stage_number_from_1
                 >= journal[p][1].stage.stage_number_from_1
      ]_vars

StagePairs ==
    {<<1, PREPARED>>, <<2, METADATA_EXTRACTED>>, <<3, SEARCHING_CRF>>,
     <<4, CRF_FOUND>>, <<5, COMPLETED>>, <<-1, FAILED>>,
     <<-2, STOPPED_VMAF_DELTA>>, <<-3, UNREACHABLE_VMAF>>,
     <<-4, SKIPPED_IS_HDR_VIDEO>>}

\* C7: in memory and in the journal, the stage number is negative exactly
\* when the stage name is an error kind, and number and name are paired:
\* 1 PREPARED .. 5 COMPLETED, -1 FAILED .. -4 SKIPPED_IS_HDR_VIDEO.
C7_NumberPairedWithName ==
    \A data \in AllJobData :
        /\ <<data.stage.stage_number_from_1, data.stage.stage_name>> \in StagePairs
        /\ (data.stage.stage_number_from_1 < 0
               <=> data.stage.stage_name \in ErrorStageNames)

\* A journal in the error stage a search ends in when the window runs empty.
C7_ErrorStagePersisted ==
    \E data \in JobDataInJournal :
        /\ data.stage.stage_name = UNREACHABLE_VMAF
        /\ data.stage.stage_number_from_1 = -3
        /\ Len(data.iterations) >= 1

\* C8: the iterations of a journal file only grow: what was recorded stays,
\* in order, at the front of the list, across operations and runs.
C8_IterationsAppendOnly ==
    [][\A p \in JournalPaths :
          (journal[p] # <<>> /\ journal'[p] # <<>>)
            => /\ Len(journal[p][1].iterations) <= Len(journal'[p][1].iterations)
               /\ SubSeq(journal'[p][1].iterations, 1, Len(journal[p][1].iterations))
                     = journal[p][1].iterations
      ]_vars

\* C9: every recorded iteration, in memory and in the journal, has its CRF
\* in [crf_min, crf_max].
C9_IterationCrfInConfigRange ==
    \A data \in AllJobData :
        \A i \in 1..Len(data.iterations) :
            /\ CrfMin <= data.iterations[i].crf
            /\ data.iterations[i].crf <= CrfMax

\* A journal whose search went up to crf_max and recorded an iteration there.
C9_CrfMaxRecorded ==
    \E data \in JobDataInJournal :
        /\ Len(data.iterations) >= 2
        /\ data.iterations[Len(data.iterations)].crf = CrfMax

\* The journals, iteration outputs and source copies under output_dir o.
FilesUnder(o) ==
    <<[p \in {q \in JournalPaths : q[1] = o} |-> journal[p]],
      [k \in {q \in DOMAIN outFile : q[1] = o} |-> outFile[k]],
      {c \in outCopy : c[1] = o}>>

\* C10: at most one driver of an output_dir is past the application lock at a
\* time and it is the holder; the journals and outputs of the directory
\* change only in steps taken while a driver holds its lock, and a driver
\* whose acquire times out changes none of them.
C10_ApplicationLockExcludes ==
    /\ [](/\ \A d \in Drivers : InPipeline(d) => appLock[outDir[d]] = d
          /\ \A o \in Dirs :
                Cardinality({d \in Drivers : InPipeline(d) /\ outDir[d] = o}) <= 1)
    /\ [][/\ \A o \in Dirs :
                FilesUnder(o)' # FilesUnder(o)
                  => \E d \in Drivers :
                        outDir[d] = o /\ appLock[o] = d /\ InPipeline(d)
          /\ \A d \in Drivers :
                (pc[d] = "acquire" /\ pc'[d] = "exit_lock_timeout")
                  => /\ appLock[outDir[d]] # d
                     /\ UNCHANGED <<journal, outFile, outCopy>>
         ]_vars

\* One driver measures VMAF under the lock while another driver of the same
\* output_dir waits to acquire it.
C10_HolderWorksPeerWaits ==
    \E d \in Drivers : \E e \in Drivers \ {d} :
        /\ pc[d] = "vmaf_running"
        /\ appLock[outDir[d]] = d
        /\ outDir[e] = outDir[d]
        /\ pc[e] = "acquire"

\* Driver d is inside the with-block of encode_job: it holds the job lock of
\* its output_dir and searches the CRF of its current job.
InEncodeJob(d) ==
    pc[d] \in {"loop", "encode", "encoding", "vmaf", "vmaf_running", "decide", "save_stage"}

\* C11: no two driver processes are inside the CRF search of encode_job for
\* the same source file at the same time, whatever their output directories.
C11_OneSearchPerSource ==
    \A d \in Drivers : \A e \in Drivers \ {d} :
        ~(/\ InEncodeJob(d)
          /\ InEncodeJob(e)
          /\ CurrentJob(d).src = CurrentJob(e).src)

\* C12: the metadata lock of a journal file is single-writer/multiple-reader:
\* while a thread holds it in EXCLUSIVE mode no other thread holds it in
\* SHARED or EXCLUSIVE mode (so an EXCLUSIVE acquire has not succeeded while
\* a SHARED holder exists, nor a SHARED one while the writer holds it).
C12_WriterExcludesAll ==
    \A c \in Clients :
        Holds(c, EXCLUSIVE)
          => \A e \in Clients \ {c} : ~Holds(e, SHARED) /\ ~Holds(e, EXCLUSIVE)

\* C14: the file at the journal path is at every instant the complete dump
\* of a JobData that was passed to serialize_to_json, and every load returns
\* such a JobData, whatever the interleaving of writers, readers and crashes.
C14_JournalNeverTorn ==
    /\ MetadataPath \in DOMAIN disk
         => disk[MetadataPath] \in {ModelDumpJson(data) : data \in passed}
    /\ \A c \in Clients :
          /\ client[c].result.kind # "ValueError"
          /\ client[c].result.kind = "JobData" => client[c].result.value[1] \in passed

\* A reader has loaded the journal while a writer, later dead, had written
\* only a part of the next dump to the temporary file.
C14_LoadedBesideTornTmp ==
    \E c \in Clients : \E e \in Clients \ {c} :
        /\ At(c, "load_release")
        /\ client[c].result.kind = "JobData"
        /\ client[e].result = Raised("crashed")
        /\ WithSuffixTmp(MetadataPath) \in DOMAIN disk
        /\ disk[WithSuffixTmp(MetadataPath)].chunks \in 1..(DumpChunks - 1)
        /\ disk[WithSuffixTmp(MetadataPath)].of # client[c].result.value[1]

C15_LockedJobSkipped ==
    [][\A d \in Drivers :
          (/\ pc[d] \in {"post", "complete_save", "cleanup"}
           /\ CurrentJob(d).timeout = "job"
           /\ pc'[d] # pc[d]
           /\ pc'[d] \notin Terminated)
            => /\ jobs'[d][idx[d]].stage = CurrentJob(d).stage
               /\ jobs'[d][idx[d]].iterations = CurrentJob(d).iterations
               /\ UNCHANGED <<journal, outFile, outCopy>>
      ]_vars

\* C16: a driver that could not get the application lock of its output_dir
\* ends with a non-zero exit status, and a driver that ran to the end of
\* main() ends with status 0.
C16_LockTimeoutExitsNonZero ==
    \A d \in Drivers :
        /\ pc[d] = "exit_lock_timeout" => ExitCode(pc[d]) # 0
        /\ pc[d] = "exit_clean" => ExitCode(pc[d]) = 0

\* Positions of a driver inside _encode_iteration, before the iteration is
\* appended.
InIteration(d) == pc[d] \in {"encode", "encoding", "vmaf", "vmaf_running"}

\* C17: when the encoder or the VMAF run of an iteration fails (anything but
\* a keyboard interrupt ends the iteration without a measured VMAF), the
\* driver goes on with the run, no iteration is appended and no journal is
\* rewritten.
C17_FailedIterationGoesOn ==
    [][\A d \in Drivers :
          (/\ InIteration(d)
           /\ pc'[d] \notin {"encode", "encoding", "vmaf", "vmaf_running", "decide"}
           /\ pc'[d] # "exit_interrupt")
            => /\ pc'[d] \in {"post", "exec"}
               /\ jobs'[d][idx[d]].iterations = CurrentJob(d).iterations
               /\ UNCHANGED journal
      ]_vars

\* The driver processes with their scheduling: a started encoder or VMAF
\* process that is not offloaded runs to its end, and the calls that start
\* one, or wait for a lock for at most the timeout, return.
Fairness ==
    \A d \in Drivers :
        /\ WF_vars(EncodeStart(d) \/ EncodeToolMissing(d))
        /\ WF_vars(EncodeSucceeds(d) \/ EncodeFails(d))
        /\ WF_vars(VmafStart(d) \/ VmafLockTimeout(d))
        /\ WF_vars(VmafSucceeds(d) \/ VmafFails(d))

SpecFair == Init /\ [][Next]_vars /\ Fairness

\* A step in which a process is offloaded for memory pressure.
LowResources ==
    \E d \in Drivers : EncodeLowResources(d) \/ VmafLowResources(d)

C19_InterruptLeavesNoPartialOutput ==
    [][\A d \in Drivers :
          (pc[d] = "encoding" /\ pc'[d] = "exit_interrupt")
            => /\ <<outDir[d], CurrentJob(d).src, crfToTest[d]>> \notin DOMAIN outFile'
               /\ UNCHANGED journal
               /\ appLock'[outDir[d]] # d
               /\ jobLock'[<<outDir[d], CurrentJob(d).src>>] # d
               /\ ExitCode(pc'[d]) = 0
      ]_vars

\* C20: after compose_jobs, every source of input_dir that had no journal has
\* one in the jobs directory of output_dir, at
\* firefly/data/jobs/<stem>_encoderdata.json, in stage PREPARED (1) with
\* the window [crf_min, crf_max] and no iterations.
C20_FreshJournalInJobsDir ==
    [][\A d \in Drivers :
          (pc[d] = "create" /\ pc'[d] = "validate")
            => \A s \in Sources \ KnownSources(jobs[d]) :
                  /\ journal'[JobsDirPath(outDir[d], s)] # <<>>
                  /\ journal'[JobsDirPath(outDir[d], s)][1].stage
                       = EncodingStage(1, PREPARED, CrfMin, CrfMax, None, None)
                  /\ journal'[JobsDirPath(outDir[d], s)][1].iterations = <<>>
      ]_vars

\* C29: for every journal holding source_video and iterations whose
\* schema_version (absent: 1) is at most the configured target, apply either
\* returns data whose schema_version is the target (the given data itself
\* when it was at the target already) or raises MigrationException because
\* no migrator has the current version as its source_version.
C29_MigratesToTarget ==
    (/\ migration.at \in {"returned", "raised"}
     /\ migration.given.source_video # <<>>
     /\ migration.given.has_iterations
     /\ (IF migration.given.schema_version = 0 THEN 1
         ELSE migration.given.schema_version) <= migration.target)
    => \/ /\ migration.at = "returned"
          /\ migration.current_v = migration.target
          /\ (migration.applied = <<>> => migration.data = migration.given)
          /\ (migration.applied # <<>> => migration.data.schema_version = migration.target)
       \/ /\ migration.at = "raised"
          /\ migration.reason = "No migrator found"

\* The score the rules are stated to give, times 100: the low-bitrate
\* multiplier by the resolution multiplier, a job without attributes taking
\* the last case of each.
ClaimedPriority(job) ==
    LET known == job.attrs # "none"
        bitrate == SourceAttributes[job.src].bitrate
        height == SourceAttributes[job.src].height
    IN  (IF known /\ bitrate < 1000 THEN 1 ELSE 10)
        * (IF known /\ height >= 2160 THEN 20
           ELSE IF known /\ height >= 1080 THEN 15
           ELSE IF known /\ height >= 720 THEN 10
           ELSE 5)

\* The list after _prioritize_jobs holds the given jobs, each as often as
\* given, in non-increasing priority order, and _execute_jobs has processed
\* a prefix of it.
SortedSameJobs ==
    /\ Len(prioritizer.jobs) = Len(prioritizer.given)
    /\ \A i \in 1..Len(prioritizer.given) :
         LET same(s) == {j \in 1..Len(s) : s[j].src = prioritizer.given[i].src
                                        /\ s[j].attrs = prioritizer.given[i].attrs}
         IN  Cardinality(same(prioritizer.jobs)) = Cardinality(same(prioritizer.given))
    /\ \A i \in 1..(Len(prioritizer.jobs) - 1) :
         prioritizer.jobs[i].priority >= prioritizer.jobs[i + 1].priority
    /\ Len(prioritizer.processed) <= Len(prioritizer.jobs)
    /\ prioritizer.processed = SubSeq(prioritizer.jobs, 1, Len(prioritizer.processed))

\* C30 as stated: after _prioritize_jobs every job's priority is the
\* low-bitrate multiplier (0.1 below 1000 kb/s, else 1.0) times the
\* resolution multiplier (2.0 from 2160, 1.5 from 1080, 1.0 from 720, else
\* 0.5), the list is the same jobs in non-increasing priority order and
\* _execute_jobs processes them in that order.
C30_PriorityIsProduct ==
    prioritizer.at \in {"execute", "done"}
    => /\ \A i \in 1..Len(prioritizer.jobs) :
            prioritizer.jobs[i].priority = ClaimedPriority(prioritizer.jobs[i])
       /\ SortedSameJobs

\* C30 amended: as above, except that a job without video attributes has
\* priority 1.0.
C30_PriorityIsProductOrNeutral ==
    prioritizer.at \in {"execute", "done"}
    => /\ \A i \in 1..Len(prioritizer.jobs) :
            prioritizer.jobs[i].priority =
                IF prioritizer.jobs[i].attrs = "none" THEN 100
                ELSE ClaimedPriority(prioritizer.jobs[i])
       /\ SortedSameJobs

\* Three jobs, one of them without attributes, were reordered and then
\* all processed.
C30_ReorderedAndProcessed ==
    /\ prioritizer.at = "done"
    /\ Len(prioritizer.processed) = 3
    /\ \E i \in 1..3 : prioritizer.jobs[i].attrs = "none"
    /\ \E i \in 1..3 : prioritizer.jobs[i].src # prioritizer.given[i].src
    /\ prioritizer.jobs[1].priority > prioritizer.jobs[3].priority

\* The journals of the jobs directory as compose_jobs found them.
GivenJournals ==
    {f \in JobsDirNames : f.suffix = JobFileSuffix /\ composer.given[f] # <<>>}

\* The journal at f was loaded: it is still there and a job stands for it.
IsLoaded(f) ==
    /\ composer.jobs_dir[f] # <<>>
    /\ \E i \in 1..Len(composer.existing_jobs) : composer.existing_jobs[i].path = f

\* The journal at f is gone and no job stands for it.
IsDropped(f) ==
    /\ composer.jobs_dir[f] = <<>>
    /\ \A i \in 1..Len(composer.existing_jobs) : composer.existing_jobs[i].path # f

\* A job was created for the input file: it is in new_jobs and has a journal.
IsCreated(n) ==
    /\ composer.output_dir[n] # <<>>
    /\ \E i \in 1..Len(composer.new_jobs) : composer.new_jobs[i].src = n

\* The hashes the loaded journals hold, of sources and of iterations.
LoadedHashes ==
    UNION {{composer.existing_jobs[i].job_data.sha256_hash}
           \cup composer.existing_jobs[i].job_data.iteration_hashes :
           i \in 1..Len(composer.existing_jobs)}

\* C21: an .mp4 of input_dir whose hash is the source hash or an iteration
\* hash of a loaded journal is never added as a new job, and no journal is
\* created or overwritten for it.
C21_KnownHashNotCreated ==
    \A n \in InputNames :
        (IsSourceVideo(n) /\ composer.at # "off" /\ composer.input[n] \in LoadedHashes)
        => /\ composer.output_dir[n] = <<>>
           /\ \A i \in 1..Len(composer.new_jobs) : composer.new_jobs[i].src # n

\* compose_jobs returned having skipped a file whose hash is an iteration
\* hash, and not the source hash, of a journal loaded for another file.
C21_IterationOutputSkipped ==
    /\ composer.at = "done"
    /\ \E i \in 1..Len(composer.existing_jobs) : \E n \in InputNames :
         LET job_data == composer.existing_jobs[i].job_data
         IN  /\ IsSourceVideo(n)
             /\ n # job_data.file_name
             /\ composer.input[n] \in job_data.iteration_hashes
             /\ composer.input[n] # job_data.sha256_hash
             /\ ~IsCreated(n)

\* A journal that parses into JobData but whose source is missing or has
\* another hash than the stored one.
FailsValidation(f) ==
    /\ f \in GivenJournals
    /\ LoadedJobData(composer.given[f][1]) # <<>>
    /\ LET job_data == LoadedJobData(composer.given[f][1])[1]
       IN  composer.input[job_data.file_name] # job_data.sha256_hash

\* C22 as stated: a journal that fails validation is deleted and not loaded,
\* and if its source file is present the same compose creates a fresh
\* PREPARED job for it.
C22_InvalidJournalReplaced ==
    composer.at = "done"
    => \A f \in JobsDirNames : FailsValidation(f)
          => /\ IsDropped(f)
             /\ LET n == composer.given[f][1].file_name
                IN  composer.input[n] # 0
                    => /\ IsCreated(n)
                       /\ composer.output_dir[n][1].stage.stage_name = PREPARED

\* C22 amended: the fresh job is created unless the source's hash is held by
\* a loaded journal.
C22_InvalidJournalReplacedUnlessKnown ==
    composer.at = "done"
    => \A f \in JobsDirNames : FailsValidation(f)
          => /\ IsDropped(f)
             /\ LET n == composer.given[f][1].file_name
                IN  (composer.input[n] # 0 /\ composer.input[n] \notin LoadedHashes)
                    => /\ IsCreated(n)
                       /\ composer.output_dir[n][1].stage.stage_name = PREPARED

\* compose_jobs returned having deleted a journal whose stored hash differs
\* from its source's and having created a fresh job for that source.
C22_MismatchReplaced ==
    /\ composer.at = "done"
    /\ \E f \in JobsDirNames :
         /\ FailsValidation(f)
         /\ composer.input[composer.given[f][1].file_name] # 0
         /\ IsDropped(f)
         /\ IsCreated(composer.given[f][1].file_name)

\* A journal that holds no JSON, cannot be migrated or is no JobData.
Unloadable(content) ==
    \/ content.kind = "text"
    \/ content.schema_version < SchemaVersion /\ MigratedVersion(content.schema_version) = 0
    \/ ~content.is_job_data

\* C23: once _load_existing_jobs has returned, every journal that could not
\* be parsed, migrated or validated into JobData is deleted and has no job,
\* and the journals that could, and whose source is as stored, are loaded.
C23_UnloadableDeleted ==
    composer.at \in {"create", "done"}
    => \A f \in GivenJournals :
          /\ Unloadable(composer.given[f][1]) => IsDropped(f)
          /\ (/\ ~Unloadable(composer.given[f][1])
              /\ composer.input[composer.given[f][1].file_name]
                    = composer.given[f][1].sha256_hash)
             => IsLoaded(f) /\ composer.jobs_dir[f] = composer.given[f]

\* The loader returned having deleted a journal of a version without
\* migrator and loaded the other journal of the directory.
C23_DeletedBesideLoaded ==
    /\ composer.at = "create"
    /\ \E f, g \in GivenJournals :
         /\ composer.given[f][1].kind = "dict"
         /\ composer.given[f][1].schema_version = 2
         /\ IsDropped(f)
         /\ IsLoaded(g)

\* C24: compose_jobs makes the jobs directory, and with no .mp4 in input_dir
\* and no journal in the jobs directory it returns no job and leaves the
\* files of the jobs directory and of output_dir as they were.
C24_EmptyComposeChangesNothing ==
    /\ composer.at \notin {"off", "compose"} => composer.jobs_dir_exists
    /\ (/\ composer.at = "done"
        /\ GivenJournals = {}
        /\ \A n \in InputNames : n.suffix \in {".mp4", ".MP4"} => composer.input[n] = 0)
       => /\ composer.existing_jobs = <<>>
          /\ composer.new_jobs = <<>>
          /\ composer.jobs_dir = composer.given
          /\ \A n \in InputNames : composer.output_dir[n] = <<>>

\* compose_jobs returned no job, having made the jobs directory, for an
\* input_dir that holds a text file only.
C24_DirectoryMadeNoJobs ==
    /\ composer.at = "done"
    /\ composer.jobs_dir_made
    /\ composer.jobs_dir_exists
    /\ \A n \in InputNames : composer.input[n] # 0 <=> n.suffix = ".txt"
    /\ composer.existing_jobs \o composer.new_jobs = <<>>

\* The outputs of the job's iterations whose VMAF lies outside
\* [vmaf_min, vmaf_max] are not among the files.
NoOutOfBandOutput(files, job) ==
    \A i \in 1..Len(job.iterations) :
        (job.iterations[i].vmaf < VmafMin \/ job.iterations[i].vmaf > VmafMax)
        => <<JobDir(job), job.src, job.iterations[i].crf>> \notin DOMAIN files

\* Some iteration of the job measured a VMAF within [vmaf_min, vmaf_max].
SomeInBand(job) ==
    \E i \in 1..Len(job.iterations) :
        job.iterations[i].vmaf >= VmafMin /\ job.iterations[i].vmaf <= VmafMax

\* C25: when the driver is done with a job that is in STOPPED_VMAF_DELTA or
\* UNREACHABLE_VMAF, reached by the search of this run or found so in the
\* list, no output of an out-of-band iteration of the job is left and, all
\* its iterations being out of band, the source lies copied in output_dir.
C25_SafeErrorCleanedUp ==
    [][\A d \in Drivers :
          (/\ pc[d] \in {"exec", "post"}
           /\ pc'[d] = "exec"
           /\ idx'[d] = idx[d] + 1
           /\ jobs'[d][idx[d]].stage.stage_name \in {STOPPED_VMAF_DELTA, UNREACHABLE_VMAF})
            => /\ NoOutOfBandOutput(outFile', jobs'[d][idx[d]])
               /\ ~SomeInBand(jobs'[d][idx[d]])
                    => <<outDir[d], jobs'[d][idx[d]].src>> \in outCopy'
      ]_vars

\* C26: a job whose search ended in CRF_FOUND is set to COMPLETED (5), that
\* stage is written to its journal, and the cleanup that follows removes the
\* output of every out-of-band iteration, keeps the outputs of the in-band
\* ones and copies no source.
C26_FoundJobCompleted ==
    [][\A d \in Drivers :
          /\ (pc[d] = "post" /\ pc'[d] \notin Terminated \cup {pc[d]}
              /\ CurrentJob(d).stage.stage_name = CRF_FOUND)
                => /\ pc'[d] = "complete_save"
                   /\ jobs'[d][idx[d]].stage.stage_number_from_1 = 5
                   /\ jobs'[d][idx[d]].stage.stage_name = COMPLETED
          /\ (pc[d] = "complete_save" /\ pc'[d] \notin Terminated \cup {pc[d]}
              /\ SomeInBand(CurrentJob(d)))
                => /\ pc'[d] = "cleanup"
                   /\ journal'[CurrentJob(d).path] # <<>>
                   /\ journal'[CurrentJob(d).path][1].stage.stage_number_from_1 = 5
                   /\ journal'[CurrentJob(d).path][1].stage.stage_name = COMPLETED
          /\ (pc[d] = "cleanup" /\ pc'[d] \notin Terminated \cup {pc[d]}
              /\ SomeInBand(CurrentJob(d)))
                => /\ CurrentJob(d).stage.stage_name = COMPLETED
                   /\ NoOutOfBandOutput(outFile', CurrentJob(d))
                   /\ \A k \in DOMAIN outFile \ DOMAIN outFile' :
                         /\ k[1] = outDir[d] /\ k[2] = CurrentJob(d).src
                         /\ \E i \in 1..Len(CurrentJob(d).iterations) :
                               /\ CurrentJob(d).iterations[i].crf = k[3]
                               /\ (CurrentJob(d).iterations[i].vmaf < VmafMin
                                   \/ CurrentJob(d).iterations[i].vmaf > VmafMax)
                   /\ \E k \in DOMAIN outFile' :
                         /\ k[1] = outDir[d] /\ k[2] = CurrentJob(d).src
                         /\ k[3] = CurrentJob(d).stage.crf_range_min
                   /\ outCopy' = outCopy
      ]_vars

\* A job that was found at its second iteration or later is COMPLETED in its
\* journal, the driver has moved on, the first output is gone and the chosen
\* one is there.
C26_FoundAfterOutOfBand ==
    \E d \in Drivers :
        /\ pc[d] = "exec"
        /\ idx[d] = 2
        /\ LET job == jobs[d][1]
           IN  /\ job.stage.stage_name = COMPLETED
               /\ Len(job.iterations) >= 2
               /\ SomeInBand(job)
               /\ journal[job.path] # <<>>
               /\ journal[job.path][1].stage.stage_name = COMPLETED
               /\ <<outDir[d], job.src, job.iterations[1].crf>> \notin DOMAIN outFile
               /\ <<outDir[d], job.src, job.stage.crf_range_min>> \in DOMAIN outFile
               /\ <<outDir[d], job.src>> \notin outCopy

\* C27: a METADATA_EXTRACTED job of an HDR source is set to
\* SKIPPED_IS_HDR_VIDEO (-4), that stage is written to its journal, the
\* source is copied to output_dir and the job is taken off the list; no
\* driver prioritizes or executes such a job, and no output or iteration
\* exists for an HDR source.
C27_HdrPassedThrough ==
    [][\A d \in Drivers :
          /\ (pc[d] = "filter" /\ pc'[d] \notin Terminated \cup {pc[d]} /\ HasCurrentJob(d)
              /\ CurrentJob(d).stage.stage_name = METADATA_EXTRACTED
              /\ CurrentJob(d).attrs = "hdr")
                => /\ pc'[d] = "filter_save"
                   /\ jobs'[d][idx[d]].stage.stage_number_from_1 = -4
                   /\ jobs'[d][idx[d]].stage.stage_name = SKIPPED_IS_HDR_VIDEO
          /\ (pc[d] = "filter_save" /\ pc'[d] \notin Terminated \cup {pc[d]})
                => /\ journal'[CurrentJob(d).path] # <<>>
                   /\ journal'[CurrentJob(d).path][1].stage.stage_number_from_1 = -4
                   /\ journal'[CurrentJob(d).path][1].stage.stage_name = SKIPPED_IS_HDR_VIDEO
                   /\ journal'[CurrentJob(d).path][1].iterations = <<>>
                   /\ <<outDir[d], CurrentJob(d).src>> \in outCopy'
                   /\ \A i \in 1..Len(jobs'[d]) : jobs'[d][i].src # CurrentJob(d).src
          /\ (pc'[d] \notin Terminated \cup {"acquire", "load", "create", "validate",
                                            "extract", "extract_save", "extract_fail_save",
                                            "filter", "filter_save"})
                => \A i \in 1..Len(jobs'[d]) :
                      ~(jobs'[d][i].stage.stage_name = METADATA_EXTRACTED
                        /\ jobs'[d][i].attrs = "hdr")
          /\ \A k \in DOMAIN outFile' : srcKind[k[2]] # "hdr"
      ]_vars

\* An HDR source was skipped: the driver ended its run with the copy of the
\* source in output_dir, stage -4 in the journal and no output.
C27_HdrSkippedAndCopied ==
    \E d \in Drivers :
        /\ pc[d] = "exit_clean"
        /\ srcKind["a"] = "hdr"
        /\ <<outDir[d], "a">> \in outCopy
        /\ journal[NewJsonPath(outDir[d], "a")] # <<>>
        /\ journal[NewJsonPath(outDir[d], "a")][1].stage.stage_number_from_1 = -4
        /\ DOMAIN outFile = {}

\* ------------------------------------------------- _write_embedded_metadata
\* The files of a call are the output, temp_file (<stem>.tmp<suffix>) and
\* backup_file (<stem>.old), each "none" (no such file), "orig" (the encoded
\* output), "emb" (the output with the metadata), "part" (a partial copy) or
\* "stale" (left by an earlier run).

\* delete_file: the contents the path can have after the call; an unlink
\* that raises OSError is logged and the file stays.
Unlinked(content) == {"none", content}

\* A cleanup that removes the temporary files and restores nothing.
CleanupMetadataNoRestore(e) ==
    {[e EXCEPT !.temp_file = t, !.old = o] :
        t \in Unlinked(e.temp_file),
        o \in IF e.backup_file_set THEN Unlinked(e.old) ELSE {e.old}}

\* _cleanup_metadata: the files it can leave.
CleanupMetadata(e) ==
    {IF e.backup_file_set /\ e.old # "none" /\ e.output = "none"
     THEN [e EXCEPT !.temp_file = t, !.output = e.old, !.old = "none"]
     ELSE [e EXCEPT !.temp_file = t, !.old = o] :
        t \in Unlinked(e.temp_file),
        o \in IF e.backup_file_set /\ e.old # "none" THEN Unlinked(e.old) ELSE {e.old}}

\* A call on an encoded output, at line 531; temp_file and backup_file may
\* be there from an earlier run, and rename replaces an existing target
\* (POSIX) or raises for it (Windows).
InitEmbedding ==
    /\ InitDrivers
    /\ composer = NoCall
    /\ migration = NoCall
    /\ prioritizer = NoCall
    /\ search = NoCall
    /\ \E t, o \in {"none", "stale"} : \E replaces \in BOOLEAN :
          embedding = [at |-> "ffmpeg", output |-> "orig", temp_file |-> t, old |-> o,
                       backup_file_set |-> FALSE, rename_replaces |-> replaces,
                       failed_at |-> "none"]

\* The step the call is at: it succeeds, or it raises an exception (logged,
\* after _cleanup_metadata the function returns), or a KeyboardInterrupt
\* arrives before it is done (after _cleanup_metadata it is raised again).
WriteEmbeddedMetadata ==
    /\ embedding.at \in {"ffmpeg", "delete_old", "rename_old", "rename_tmp", "remove_old"}
    /\ \E outcome \in {"ok", "error", "interrupt"} :
       LET e == embedding
           failed(at, rec) ==
               {[c EXCEPT !.at = at, !.failed_at = e.at] : c \in CleanupMetadata(rec)}
           left(rec) ==
               IF outcome = "error" THEN failed("returned", rec) ELSE failed("raised", rec)
       IN  embedding' \in
             CASE e.at = "ffmpeg" ->
                    IF outcome = "ok"
                    THEN {[e EXCEPT !.at = "delete_old", !.temp_file = "emb"]}
                    ELSE UNION {left([e EXCEPT !.temp_file = t]) :
                                  t \in {e.temp_file, "part"}}
               [] e.at = "delete_old" ->
                    IF outcome = "ok"
                    THEN {[e EXCEPT !.at = "rename_old", !.backup_file_set = TRUE,
                                    !.old = o] : o \in Unlinked(e.old)}
                    ELSE IF outcome = "interrupt"
                    THEN UNION {left([e EXCEPT !.backup_file_set = b]) : b \in BOOLEAN}
                    ELSE {}
               [] e.at = "rename_old" ->
                    IF outcome = "ok" /\ (e.old = "none" \/ e.rename_replaces)
                    THEN {[e EXCEPT !.at = "rename_tmp", !.old = e.output,
                                    !.output = "none"]}
                    ELSE IF outcome = "ok" THEN failed("returned", e)
                    ELSE left(e)
               [] e.at = "rename_tmp" ->
                    IF outcome = "ok"
                    THEN {[e EXCEPT !.at = "remove_old", !.output = e.temp_file,
                                    !.temp_file = "none"]}
                    ELSE left(e)
               [] e.at = "remove_old" ->
                    IF outcome = "ok"
                    THEN {[e EXCEPT !.at = "returned", !.old = o] : o \in Unlinked(e.old)}
                    ELSE IF outcome = "interrupt" THEN left(e)
                    ELSE {}
    /\ UNCHANGED <<mainVars, ioVars, composer, migration, prioritizer, search>>

SpecEmbedding == InitEmbedding /\ [][WriteEmbeddedMetadata]_vars

\* C28: once _write_embedded_metadata has returned or raised, whichever step
\* failed or was interrupted, the output path holds a complete file: the
\* encoded output or the output with the metadata.
C28_OutputNeverLost ==
    embedding.at \in {"returned", "raised"} => embedding.output \in {"orig", "emb"}

\* The call was interrupted after the output had been renamed to .old and
\* before the temporary file took its place, and raised with the encoded
\* output back at its path.
C28_RestoredFromBackup ==
    /\ embedding.at = "raised"
    /\ embedding.failed_at = "rename_tmp"
    /\ embedding.output = "orig"
    /\ embedding.old = "none"

\* ------------------------------------------------------- search loop steps
\* The iteration at crf measured v out of the band and the efficiency check
\* of lines 144-165 lets the search go on from this stage.
GoesOn(stage, crf, v) ==
    /\ v < VmafMin \/ v > VmafMax
    /\ \/ stage.last_vmaf = None
       \/ stage.last_crf = None
       \/ Abs(crf - stage.last_crf) = 0
       \/ Abs(v - stage.last_vmaf) >= EfficiencyThreshold * Abs(crf - stage.last_crf)

\* C31: when an iteration at crf_to_test is neither in band nor stopped for
\* low efficiency, a VMAF above vmaf_max moves only crf_range_min, to
\* crf_to_test + 1, and any other VMAF moves only crf_range_max, to
\* crf_to_test - 1; the stage becomes SEARCHING_CRF (3) with last_crf =
\* crf_to_test and last_vmaf the measured VMAF, and it is in the journal
\* before the loop predicts again.
C31_NarrowingStep ==
    [][\A d \in Drivers :
          /\ (/\ pc[d] = "decide" /\ pc'[d] = "save_stage"
              /\ GoesOn(CurrentJob(d).stage, crfToTest[d], LastIteration(CurrentJob(d)).vmaf))
                => LET old == CurrentJob(d).stage
                       new == jobs'[d][idx[d]].stage
                       v == LastIteration(CurrentJob(d)).vmaf
                   IN  /\ new.stage_number_from_1 = 3
                       /\ new.stage_name = SEARCHING_CRF
                       /\ new.last_crf = crfToTest[d]
                       /\ new.last_vmaf = v
                       /\ v > VmafMax => /\ new.crf_range_min = crfToTest[d] + 1
                                         /\ new.crf_range_max = old.crf_range_max
                       /\ v <= VmafMax => /\ new.crf_range_max = crfToTest[d] - 1
                                          /\ new.crf_range_min = old.crf_range_min
          /\ (/\ pc[d] = "save_stage" /\ pc'[d] \notin Terminated \cup {pc[d]}
              /\ CurrentJob(d).stage.stage_name = SEARCHING_CRF)
                => /\ pc'[d] = "loop"
                   /\ journal'[CurrentJob(d).path] = <<JobDataOf(CurrentJob(d))>>
                   /\ jobs'[d][idx[d]].stage = CurrentJob(d).stage
          /\ (pc[d] = "loop" /\ pc'[d] = "encode"
              /\ CurrentJob(d).stage.stage_name = SEARCHING_CRF)
                => /\ journal[CurrentJob(d).path] # <<>>
                   /\ journal[CurrentJob(d).path][1].stage = CurrentJob(d).stage
      ]_vars

\* Both narrowings took place in one search and the second is in the
\* journal: a result above the band raised crf_range_min, a later one below
\* the band lowered crf_range_max.
C31_NarrowedBothWays ==
    \E d \in Drivers :
        /\ pc[d] = "loop"
        /\ LET job == CurrentJob(d)
           IN  /\ Len(job.iterations) = 2
               /\ job.iterations[1].vmaf > VmafMax
               /\ job.iterations[2].vmaf < VmafMin
               /\ job.stage.stage_name = SEARCHING_CRF
               /\ job.stage.crf_range_min = job.iterations[1].crf + 1
               /\ job.stage.crf_range_max = job.iterations[2].crf - 1
               /\ job.stage.last_crf = job.iterations[2].crf
               /\ journal[job.path] = <<JobDataOf(job)>>

\* C32: an out-of-band iteration at crf_to_test that follows a previous one
\* (last_crf, last_vmaf) with |crf_to_test - last_crf| > 0 and
\* |v - last_vmaf| / |crf_to_test - last_crf| < efficiency_threshold ends the
\* search in STOPPED_VMAF_DELTA (-2): the window is the one before the
\* iteration, last_crf and last_vmaf are those of a recorded iteration whose
\* VMAF is nearest vmaf_min, the stage is persisted and the loop is left; a
\* first iteration never stops the search this way.
C32_EfficiencyStop ==
    [][\A d \in Drivers :
          /\ (/\ pc[d] = "decide" /\ pc'[d] = "save_stage"
              /\ LET v == LastIteration(CurrentJob(d)).vmaf
                     old == CurrentJob(d).stage
                 IN  /\ v < VmafMin \/ v > VmafMax
                     /\ old.last_crf # None
                     /\ old.last_vmaf # None
                     /\ Abs(crfToTest[d] - old.last_crf) > 0
                     /\ Abs(v - old.last_vmaf)
                           < EfficiencyThreshold * Abs(crfToTest[d] - old.last_crf))
                => LET old == CurrentJob(d).stage
                       new == jobs'[d][idx[d]].stage
                       its == CurrentJob(d).iterations
                   IN  /\ new.stage_number_from_1 = -2
                       /\ new.stage_name = STOPPED_VMAF_DELTA
                       /\ new.crf_range_min = old.crf_range_min
                       /\ new.crf_range_max = old.crf_range_max
                       /\ \E i \in 1..Len(its) :
                             /\ new.last_crf = its[i].crf
                             /\ new.last_vmaf = its[i].vmaf
                             /\ \A j \in 1..Len(its) :
                                   Abs(its[i].vmaf - VmafMin) <= Abs(its[j].vmaf - VmafMin)
          /\ (/\ pc[d] = "decide" /\ pc'[d] = "save_stage"
              /\ Len(CurrentJob(d).iterations) = 1)
                => jobs'[d][idx[d]].stage.stage_name # STOPPED_VMAF_DELTA
          /\ (/\ pc[d] = "save_stage" /\ pc'[d] \notin Terminated \cup {pc[d]}
              /\ CurrentJob(d).stage.stage_name = STOPPED_VMAF_DELTA)
                => /\ pc'[d] = "post"
                   /\ journal'[CurrentJob(d).path] = <<JobDataOf(CurrentJob(d))>>
      ]_vars

\* A search stopped at its third iteration, persisted: the stage names the
\* first iteration, nearest vmaf_min, not the one that stopped the search,
\* and the window is the one the second iteration left.
C32_StoppedAtNearest ==
    \E data \in JobDataInJournal :
        /\ data.stage.stage_name = STOPPED_VMAF_DELTA
        /\ Len(data.iterations) = 3
        /\ data.stage.last_crf = data.iterations[1].crf
        /\ data.stage.last_vmaf = data.iterations[1].vmaf
        /\ data.iterations[3].vmaf = data.iterations[2].vmaf
        /\ data.iterations[3].vmaf # data.iterations[1].vmaf
        /\ data.stage.crf_range_min = data.iterations[2].crf + 1
        /\ data.stage.crf_range_max = data.iterations[1].crf - 1

SearchCrfs == (CrfMin - 4)..(CrfMax + 3)

\* A job enters encode_job in METADATA_EXTRACTED with the window
\* _initialize_encoder_job gave it, crf_min < crf_max of the configuration
\* it was created under, and no iteration.
InitSearch ==
    /\ InitDrivers
    /\ composer = NoCall
    /\ migration = NoCall
    /\ prioritizer = NoCall
    /\ embedding = NoCall
    /\ \E lo, hi \in SearchCrfs :
          /\ lo < hi
          /\ search = [at |-> "loop",
                       stage |-> EncodingStage(2, METADATA_EXTRACTED, lo, hi, None, None),
                       iterations |-> <<>>, crf_to_test |-> None,
                       first_min |-> lo, first_max |-> hi]

\* Lines 45-79: the top of a pass, up to the decision to encode at crf_to_test.
SearchLoopPass ==
    /\ search.at = "loop"
    /\ search' \in
          IF search.stage.crf_range_min > search.stage.crf_range_max
          THEN {[search EXCEPT !.at = "done", !.stage = UnreachableStage(@)]}
          ELSE {IF IsCrfPredictionValid(search.stage, crf)
                THEN [search EXCEPT !.at = "iteration", !.crf_to_test = crf]
                ELSE [search EXCEPT !.at = "done", !.stage = UnreachableStage(@)] :
                   crf \in PredictNextCrf(search.stage, search.iterations)}
    /\ UNCHANGED <<mainVars, ioVars, composer, migration, prioritizer, embedding>>

\* Lines 81-137: the iteration is recorded with the VMAF it measured and the
\* stage is decided; the loop goes on in SEARCHING_CRF only.
SearchIteration ==
    /\ search.at = "iteration"
    /\ \E vmaf \in VmafValues :
          LET its == Append(search.iterations, Iteration(search.crf_to_test, vmaf))
              stage == DecidedStage(search.stage, its, search.crf_to_test, vmaf)
          IN  search' = [search EXCEPT
                           !.iterations = its,
                           !.stage = stage,
                           !.at = IF stage.stage_name = SEARCHING_CRF THEN "loop" ELSE "done"]
    /\ UNCHANGED <<mainVars, ioVars, composer, migration, prioritizer, embedding>>

\* Every encode and every VMAF run ends, so a pass that can be taken is taken.
SpecSearch ==
    InitSearch /\ [][SearchLoopPass \/ SearchIteration]_vars
               /\ WF_vars(SearchLoopPass \/ SearchIteration)

\* The sums of the least-squares fit of VMAF over CRF: the fitted line meets
\* the target VMAF (vmaf_min + vmaf_max) / 2 at the CRF FitP / FitQ.
FitQ(its) ==
    LET n == Len(its)
    IN  2 * n * (n * SeqSum([i \in 1..n |-> its[i].crf * its[i].vmaf])
                   - SeqSum(CrfsOf(its)) * SeqSum(VmafsOf(its)))

FitP(its) ==
    LET n == Len(its)
        Sx == SeqSum(CrfsOf(its))
        Sy == SeqSum(VmafsOf(its))
        D == n * SeqSum([i \in 1..n |-> its[i].crf * its[i].crf]) - Sx * Sx
    IN  (n * (VmafMin + VmafMax) - 2 * Sy) * D + Sx * (FitQ(its) \div n)

\* crf is an integer nearest to p / q, brought into [lo, hi].
NearestClamped(crf, p, q, lo, hi) ==
    /\ lo <= crf /\ crf <= hi
    /\ \/ 2 * Abs(crf * q - p) <= q
       \/ crf = lo /\ 2 * p <= (2 * lo + 1) * q
       \/ crf = hi /\ 2 * p >= (2 * hi - 1) * q

\* The CRF of a prediction made with a last_crf: the floor midpoint of the
\* window with one iteration, the rounded solution of the regression,
\* clamped to the window, with two or more.
PredictedFromResults(stage, its, crf) ==
    /\ stage.crf_range_min <= crf
    /\ crf <= stage.crf_range_max
    /\ Len(its) = 1 => crf = (stage.crf_range_min + stage.crf_range_max) \div 2
    /\ Len(its) >= 2
          => /\ FitQ(its) # 0
             /\ IF FitQ(its) > 0
                THEN NearestClamped(crf, FitP(its), FitQ(its),
                                    stage.crf_range_min, stage.crf_range_max)
                ELSE NearestClamped(crf, -FitP(its), -FitQ(its),
                                    stage.crf_range_min, stage.crf_range_max)

\* C34 as stated: whenever the loop predicts on a non-empty window, the CRF
\* it gets lies in [crf_range_min, crf_range_max], so that the pass goes on
\* to encode at it; it is initial_crf when there is no last_crf, the floor
\* midpoint of the window with exactly one iteration, and the rounded
\* solution of the regression, clamped to the window, with two or more.
C34_PredictionInWindow ==
    [][(/\ search.at = "loop" /\ search' # search
        /\ search.stage.crf_range_min <= search.stage.crf_range_max)
          => /\ search'.at = "iteration"
             /\ search.stage.crf_range_min <= search'.crf_to_test
             /\ search'.crf_to_test <= search.stage.crf_range_max
             /\ search.stage.last_crf = None => search'.crf_to_test = InitialCrf
             /\ search.stage.last_crf # None
                   => PredictedFromResults(search.stage, search.iterations,
                                           search'.crf_to_test)
      ]_vars

\* C34 as the code has it: a prediction made with a last_crf on a non-empty
\* window lies in the window, as the floor midpoint with one iteration and
\* the clamped rounded regression solution with two or more; a prediction
\* made without a last_crf is initial_crf, and the pass goes on to encode
\* exactly when the window of the job holds initial_crf.
C34_PredictionInWindowAfterFirst ==
    [][(/\ search.at = "loop" /\ search' # search
        /\ search.stage.crf_range_min <= search.stage.crf_range_max)
          => /\ search.stage.last_crf # None
                   => /\ search'.at = "iteration"
                      /\ PredictedFromResults(search.stage, search.iterations,
                                              search'.crf_to_test)
             /\ search.stage.last_crf = None
                   => /\ search'.at = "iteration"
                            => search'.crf_to_test = InitialCrf
                      /\ search'.at = "iteration"
                            <=> /\ search.stage.crf_range_min <= InitialCrf
                                /\ InitialCrf <= search.stage.crf_range_max
      ]_vars

\* A third iteration is about to run at the CRF the regression gave: the
\* rounded solution lies in the window as it is, and is not the midpoint.
C34_RegressionNotMidpoint ==
    /\ search.at = "iteration"
    /\ Len(search.iterations) = 2
    /\ search.stage.crf_range_min < search.stage.crf_range_max
    /\ 2 * Abs(search.crf_to_test * FitQ(search.iterations) - FitP(search.iterations))
          <= Abs(FitQ(search.iterations))
    /\ search.crf_to_test # (search.stage.crf_range_min + search.stage.crf_range_max) \div 2

\* -------------------------------------------------------- validator alone
\* _validate_jobs on one job loaded from a journal of the jobs directory of
\* "o1", whatever that journal holds: any stage with a window and a
\* last_vmaf, up to two iterations, any of their outputs in output_dir; the
\* source may have left input_dir (named "gone") and the journal file may
\* have been removed since the job was loaded.
ValidatedCrfs == {CrfMin, CrfMin + 1}
ValidatedVmafs == {9000, 9600}

ValidatedIterations ==
    LET its == {Iteration(crf, vmaf) : crf \in ValidatedCrfs, vmaf \in ValidatedVmafs}
    IN  {<<>>} \cup {<<i>> : i \in its} \cup {<<i, j>> : i \in its, j \in its}

InitValidate ==
    /\ composer = NoCall /\ migration = NoCall /\ prioritizer = NoCall
    /\ embedding = NoCall /\ search = NoCall
    /\ pc = [d \in Drivers |-> IF d = 1 THEN "validate" ELSE "idle"]
    /\ idx = [d \in Drivers |-> 0]
    /\ crfToTest = [d \in Drivers |-> None]
    /\ wasProcessed = [d \in Drivers |-> FALSE]
    /\ appLock = [o \in Dirs |-> IF o = "o1" THEN 1 ELSE 0]
    /\ jobLock = [k \in Dirs \X Sources |-> 0]
    /\ outCopy = {}
    /\ srcKind \in [Sources -> {"sdr"}]
    /\ outDir = [d \in Drivers |-> "o1"]
    /\ runs = 1
    /\ persistedCrfs = [k \in Dirs \X Sources |-> {}]
    /\ client = [c \in Clients |-> IdleClient]
    /\ lockFiles = [f \in LockPaths |-> 0]
    /\ disk = <<>>
    /\ passed = {}
    /\ \E pair \in StagePairs : \E lo, hi \in ValidatedCrfs :
       \E last_vmaf \in {None, 9600} : \E its \in ValidatedIterations :
       \E src \in {"a", "gone"} : \E kept \in SUBSET ValidatedCrfs :
       \E journal_exists \in BOOLEAN :
          LET data == [src |-> src,
                       stage |-> EncodingStage(pair[1], pair[2], lo, hi, last_vmaf,
                                               IF last_vmaf = None THEN None ELSE lo),
                       iterations |-> its, attrs |-> "sdr"]
              path == JobsDirPath("o1", "a")
          IN  /\ jobs = [d \in Drivers |->
                           IF d = 1 THEN <<EncoderJob(path, data)>> ELSE <<>>]
              /\ journal = [p \in JournalPaths |->
                              IF p = path /\ journal_exists THEN <<data>> ELSE <<>>]
              /\ outFile = [k \in {<<"o1", "a", crf>> : crf \in kept} |-> "emb"]

SpecValidate == InitValidate /\ [][\E d \in Drivers : ValidateJobs(d)]_vars

\* C35: _validate_jobs keeps a CRF_FOUND or COMPLETED job only if one of its
\* iterations has crf = crf_range_min = crf_range_max and VMAF = last_vmaf
\* and the output file of that iteration exists in output_dir; it keeps every
\* PREPARED, METADATA_EXTRACTED, SEARCHING_CRF, STOPPED_VMAF_DELTA and
\* UNREACHABLE_VMAF job whose source file and journal exist.
C35_ValidatorKeeps ==
    [][\A d \in Drivers :
          (pc[d] = "validate" /\ pc'[d] = "extract")
            => \A i \in 1..Len(jobs[d]) :
                  LET job == jobs[d][i]
                      kept == \E k \in 1..Len(jobs'[d]) : jobs'[d][k] = job
                  IN  /\ (job.stage.stage_name \in {CRF_FOUND, COMPLETED} /\ kept)
                            => \E n \in 1..Len(job.iterations) :
                                  /\ job.iterations[n].crf = job.stage.crf_range_min
                                  /\ job.iterations[n].crf = job.stage.crf_range_max
                                  /\ job.iterations[n].vmaf = job.stage.last_vmaf
                                  /\ <<outDir[d], job.src, job.iterations[n].crf>>
                                        \in DOMAIN outFile
                      /\ (/\ job.stage.stage_name \in
                                {PREPARED, METADATA_EXTRACTED, SEARCHING_CRF,
                                 STOPPED_VMAF_DELTA, UNREACHABLE_VMAF}
                          /\ job.src \in Sources
                          /\ journal[job.path] # <<>>)
                            => kept
      ]_vars

\* C36: the search loop always ends, every encode and VMAF run ending: from
\* any window and for any VMAF results a terminal stage (CRF_FOUND,
\* STOPPED_VMAF_DELTA or UNREACHABLE_VMAF) is reached after at most
\* crf_range_max - crf_range_min + 1 iterations, counted on the window the
\* search began with; an iteration after which the search goes on leaves a
\* strictly smaller window, and no CRF is tested twice.
C36_SearchTerminates ==
    /\ <>(/\ search.at = "done"
          /\ search.stage.stage_name \in {CRF_FOUND, STOPPED_VMAF_DELTA, UNREACHABLE_VMAF})
    /\ [](Len(search.iterations) <= search.first_max - search.first_min + 1)
    /\ [][/\ (search.at = "iteration" /\ search'.at = "loop")
                => /\ search.stage.crf_range_min <= search'.stage.crf_range_min
                   /\ search'.stage.crf_range_max <= search.stage.crf_range_max
                   /\ search'.stage.crf_range_max - search'.stage.crf_range_min
                         < search.stage.crf_range_max - search.stage.crf_range_min
          /\ (search.at = "loop" /\ search'.at = "iteration")
                => \A i \in 1..Len(search.iterations) :
                      search.iterations[i].crf # search'.crf_to_test
       ]_vars

\* A search that took as many iterations as its first window had CRFs, three
\* or more, has ended.
C36_EveryCrfTested ==
    /\ search.at = "done"
    /\ Len(search.iterations) >= 3
    /\ Len(search.iterations) = search.first_max - search.first_min + 1

\* The recorded iterations of data whose VMAF lies in [vmaf_min, vmaf_max].
InBandIterations(data) ==
    {i \in 1..Len(data.iterations) :
        VmafMin <= data.iterations[i].vmaf /\ data.iterations[i].vmaf <= VmafMax}

\* The stage of data and the in-band iterations it records agree.
BandAgreesWithStage(data) ==
    /\ data.stage.stage_name \in {STOPPED_VMAF_DELTA, UNREACHABLE_VMAF, SEARCHING_CRF}
          => InBandIterations(data) = {}
    /\ data.stage.stage_name = CRF_FOUND
          => InBandIterations(data) = {Len(data.iterations)}

\* C37: in every job state the search loop produces, in the journal and in
\* memory once the stage after an iteration is assigned, a job in
\* STOPPED_VMAF_DELTA, UNREACHABLE_VMAF or SEARCHING_CRF has no recorded
\* iteration with a VMAF in [vmaf_min, vmaf_max], and a job in CRF_FOUND has
\* exactly one, the last.
C37_BandAgreesWithStage ==
    /\ \A data \in JobDataInJournal : BandAgreesWithStage(data)
    /\ \A d \in Drivers : \A i \in 1..Len(jobs[d]) :
          (pc[d] = "decide" /\ i = idx[d]) \/ BandAgreesWithStage(jobs[d][i])

\* A journal in CRF_FOUND after three iterations: the first two out of the
\* band on either side, the third in it.
C37_FoundAtThird ==
    \E data \in JobDataInJournal :
        /\ data.stage.stage_name = CRF_FOUND
        /\ Len(data.iterations) = 3
        /\ data.iterations[1].vmaf < VmafMin
        /\ data.iterations[2].vmaf > VmafMax
        /\ InBandIterations(data) = {3}

\* C38: the sha256_hash of every iteration recorded in a journal whose
\* output file is in output_dir, completely written, is the SHA-256 of the
\* content that file has on disk.
C38_HashOfKeptOutput ==
    \A p \in JournalPaths :
        journal[p] # <<>>
          => \A n \in 1..Len(journal[p][1].iterations) :
                LET it == journal[p][1].iterations[n]
                    file == <<p[1], journal[p][1].src, it.crf>>
                IN  (file \in DOMAIN outFile /\ outFile[file] # "partial")
                       => it.sha256_hash = CalculateSha256Hash(outFile[file])

\* C39: the list compose_jobs returns, the loaded jobs followed by the new
\* ones, has no two jobs with the same source sha256_hash and no two jobs
\* with the same journal path (a loaded job's journal lies in the jobs
\* directory, a new job's in output_dir).
C39_ComposedJobsDistinct ==
    composer.at = "done"
      => LET existing == composer.existing_jobs
             new == composer.new_jobs
         IN  /\ \A i, j \in 1..Len(existing) :
                   i # j => /\ existing[i].job_data.sha256_hash
                                  # existing[j].job_data.sha256_hash
                            /\ existing[i].path # existing[j].path
             /\ \A i, j \in 1..Len(new) :
                   i # j => /\ composer.input[new[i].src] # composer.input[new[j].src]
                            /\ new[i].path # new[j].path
             /\ \A i \in 1..Len(existing) : \A j \in 1..Len(new) :
                   existing[i].job_data.sha256_hash # composer.input[new[j].src]

====
